---- MODULE Spec2Model ----
(***************************************************************************)
(* Model of the processional server (processional/host.py) and of the      *)
(* traffic its client sessions (processional/processing.py) exchange with  *)
(* it.                                                                     *)
(*                                                                         *)
(* The reception flow is Server.loop calling Server.step; one action is    *)
(* one pass of the body of the `for sock in self.sockets` loop of step.    *)
(* host.py defines loop twice; the model follows the select-driven         *)
(* definition (lines 72-93), the one that accepts several clients and      *)
(* sends the sid.  Workers created for THREAD requests run the closure of  *)
(* line 145, which reads the variables `client`, `tid` and `code` of the   *)
(* frame of step when it runs.                                             *)
(*                                                                         *)
(* Three specifications share the actions:                                 *)
(*   Spec      the life of a server from its start (connections, flags,    *)
(*             CLOSE), for every combination of the two flags;             *)
(*   SpecTask  BLOCK, THREAD and WRAP requests of two connected sessions;  *)
(*   SpecRef   WRAP, OWN, DROP and dereferences, with disconnections.      *)
(***************************************************************************)
EXTENDS Integers, Sequences, FiniteSets, TLC

\* ---------------------------------------------------------------- bounds
Clients == {"c1", "c2"}
Roots == {"r1"}
\* identities of the objects that can live in the server process
Objs == Roots \cup {"r2"}
\* the server of this model and another one
Sids == {"A", "Z"}
\* total number of requests the sessions send, in each specification
MaxSend == 2
MaxTask == 2
MaxRef == 3
\* threads of the client process that wait on tasks of one session
MaxWaiters == 2
\* length of the lists kept by the server
MaxLen == 2

\* ------------------------------------------------------ program constants
CLOSE == 0
BLOCK == 1
THREAD == 2
WRAP == 3
DROP == 4
OWN == 5
PERSIST == 6
DETACH == 7

\* kinds of the elements of an address
ITEM == 0
ATTR == 1

\* SocketConnection.header.size, max_concat, max_temp
header_size == 4
max_concat == 512
max_temp == 4096
\* SlaveProcess.max_unpolled
max_unpolled == 200

NULL == "null"

VARIABLES
    persistent,   \* Server.persistent
    attached,     \* Server.attached
    sockets,      \* Server.sockets without the listening socket, in list order
    clients,      \* Server.clients: connected client -> its Counter (Client.wrapped)
    wrapped,      \* host.wrapped: registered root -> Wrapped.count
    pc,           \* position of the reception flow
    idx,          \* position of the iterator of `for sock in self.sockets`
    busy,         \* local `busy` of step
    workers,      \* threads spawned by `thread(lambda: ...)`
    backlog,      \* connections waiting in the listen queue
    conn,         \* state of each client session's connection
    sent,         \* requests each session has sent, in send order
    wire,         \* requests sent and not yet read by the server socket
    buf,          \* requests in the receive buffer of the server's SocketConnection
    out,          \* frames the server wrote and the session has not read yet
    rcvd,         \* reply frames each session has received, in order
    lastid,       \* SlaveProcess.id: the last task id used
    register,     \* SlaveProcess.register: task id -> slot
    recvlock,     \* SlaveProcess.recvlock: the thread that holds it, 0 if free
    inbox,        \* reply frames that reached the session's connection, unread
    inflight,     \* requests of the session the server has not answered yet
    eof,          \* the session's connection failed: EOF follows the inbox
    th,           \* threads of the client process that call Task.wait
    heap,         \* value of each object living in the server process
    instances,    \* SlaveProcess.instances of the client process: sid -> session
    owned,        \* roots for which each session holds an owned WrappedObject
    made,         \* what the client did to each object: f() then the appends
    got,          \* what the last operation on a handle gave
    msgs,         \* sizes of the pickles the peer passed to SocketConnection.send
    arrived,      \* bytes of the stream that reached the receiving socket
    ends,         \* position where the peer ended the stream, -1 while it is open
    taken,        \* bytes the receiver's recv_into calls took from the socket
    current,      \* SocketConnection.current
    pending,      \* SocketConnection.pending
    at,           \* position of the receiving thread inside recv, poll, _unpoll
    within,       \* the call the receiving thread is in: "recv", "poll", "_unpoll"
    size,         \* local `size` of recv
    received,     \* local `received` of recv
    returned,     \* what the recv calls returned or raised, in call order
    polled,       \* what the last poll call returned or raised
    unpolled,     \* SlaveProcess.unpolled
    avail,        \* what the last call of Task.available returned, and to whom
    stderr,       \* the errors printed on sys.stderr: task id and who printed
    posted,       \* task ids of the requests written to the connection, in order
    shares,       \* RemoteObjects of each session on its owned WrappedObject of a root
    lent,         \* RemoteObjects of each session on borrowed WrappedObjects of a root
    written,      \* the sendall calls made on the socket of one client, in order
    sending,      \* the flows of the server inside SocketConnection.send
    tmp           \* SocketConnection.tmp: the parts of the stream it holds

serverVars == <<persistent, attached, sockets, clients, wrapped, pc, idx, busy,
                workers, backlog, conn, sent, wire, buf, out, rcvd>>
sessionVars == <<lastid, register, recvlock, inbox, inflight, eof, th>>
handleVars == <<heap, instances, owned, made, got>>
connVars == <<msgs, arrived, ends, taken, current, pending, at, within, size,
              received, returned, polled, unpolled>>
streamVars == <<msgs, arrived, ends, taken, current, pending, at, within, size,
                received, returned, polled>>
taskVars == <<avail, stderr, posted>>
refVars == <<shares, lent>>
sendVars == <<written, sending>>
bufVars == <<tmp>>
vars == <<serverVars, sessionVars, handleVars, connVars, bufVars, taskVars, refVars,
          sendVars>>

\* ------------------------------------------------------------- payloads
\* what a request carries: a callable returning a plain value, a callable
\* that raises, a callable returning the object of identity r, or a call
\* of host.unwrap on an address of root r; an object is named by its
\* identity, which is also its root id once it is registered
Code(k, a) == [kind |-> k, arg |-> a]
NoCode == Code("none", NULL)
Outcome(e, r) == [err |-> e, res |-> r]
\* the 4-tuple (tid, error, result, report) of _task
Reply(tid, o) == [tid |-> tid, err |-> o.err, res |-> o.res,
                  rep |-> IF o.err = NULL THEN NULL ELSE "traceback", len |-> 4]
\* the 3-tuple (tid, None, None) sent on CLOSE
CloseReply(tid) == [tid |-> tid, err |-> NULL, res |-> NULL, rep |-> NULL, len |-> 3]
SidFrame == [tid |-> 0, err |-> NULL, res |-> "sid", rep |-> NULL, len |-> 1]

Counter == [r \in Objs |-> 0]
\* a dict without keys
Empty == [x \in {} |-> 0]

\* ------------------------------------------------------------- registry
\* host.unwrap: the object registered under the root of the address
unwrap(reg, r) ==
    IF r \in DOMAIN reg THEN Outcome(NULL, r)
    ELSE Outcome("ReferenceError", NULL)

\* Server.env: the names of the main module and their values
env == [n \in {"f"} |-> "v"]

\* Server._run; a str payload is looked up at line 184 and then, not being
\* a tuple, is given to dill.loads at line 188
_run(reg, code) ==
    CASE code.kind = "name" ->
             IF code.arg \in DOMAIN env THEN Outcome("TypeError", NULL)
             ELSE Outcome("KeyError", NULL)
      [] code.kind = "val" -> Outcome(NULL, code.arg)
      [] code.kind = "raise" -> Outcome("Exception", NULL)
      [] code.kind = "obj" -> Outcome(NULL, code.arg)
      [] code.kind = "ref" -> unwrap(reg, code.arg)
      [] OTHER -> Outcome("TypeError", NULL)

\* the registry and the per-client counters, as one value
Reg(w, cl) == [wrapped |-> w, clients |-> cl]

\* _own that registers the id when it is not known
_own_any(S, c, r) ==
    Reg([x \in DOMAIN S.wrapped \cup {r} |->
           IF x \in DOMAIN S.wrapped
           THEN S.wrapped[x] + (IF x = r THEN 1 ELSE 0) ELSE 1],
        [S.clients EXCEPT ![c][r] = @ + 1])

\* Server._own
_own(S, c, r) ==
    IF r \in DOMAIN S.wrapped
    THEN Reg([S.wrapped EXCEPT ![r] = @ + 1],
             [S.clients EXCEPT ![c][r] = @ + 1])
    ELSE S

\* _drop that removes the entry only below zero
_drop_below(S, c, r) ==
    IF r \in DOMAIN S.wrapped
    THEN LET n == S.wrapped[r] - 1
             cl == [S.clients EXCEPT ![c][r] = @ - 1]
         IN  IF n < 0
             THEN Reg([x \in DOMAIN S.wrapped \ {r} |-> S.wrapped[x]], cl)
             ELSE Reg([S.wrapped EXCEPT ![r] = n], cl)
    ELSE S

\* Server._drop
_drop(S, c, r) ==
    IF r \in DOMAIN S.wrapped
    THEN LET n == S.wrapped[r] - 1
             cl == [S.clients EXCEPT ![c][r] = @ - 1]
         IN  IF n <= 0
             THEN Reg([x \in DOMAIN S.wrapped \ {r} |-> S.wrapped[x]], cl)
             ELSE Reg([S.wrapped EXCEPT ![r] = n], cl)
    ELSE S

\* the assignment wrapped[id(obj)] = Wrapped(obj, 0) of Server._wrap
Register(w, r) == [x \in DOMAIN w \cup {r} |-> IF x = r THEN 0 ELSE w[x]]

\* Server._wrap: the registry after the call, and the outcome _task reports
_wrap(S, c, code) ==
    LET o == _run(S.wrapped, code)
    IN  IF o.err # NULL THEN [reg |-> S, outcome |-> o]
        ELSE [reg |-> _own(Reg(Register(S.wrapped, o.res), S.clients), c, o.res),
              outcome |-> Outcome(NULL, o.res)]

\* the except clause of Server.step: the client record and the socket go
Forget(cl, c) == [x \in DOMAIN cl \ {c} |-> cl[x]]

RECURSIVE Remove(_, _)
Remove(s, c) ==
    IF s = <<>> THEN <<>>
    ELSE IF Head(s) = c THEN Tail(s)
    ELSE <<Head(s)>> \o Remove(Tail(s), c)

\* --------------------------------------------------------------- replies
\* connection.send on the connection of client c: a frame written to a
\* session that closed its end is lost (BrokenPipeError is swallowed)
SendTo(o, c, frame) ==
    IF conn[c] = "closed" THEN o ELSE [o EXCEPT ![c] = Append(@, frame)]

\* a result Pickler cannot dump, such as a lock
Unpicklable == "lock"
\* SocketConnection.send, lines 98-103: the frame is pickled before any write
Pickles(frame) == frame.res # Unpicklable

\* Server._task: the reply (tid, error, result, report) goes to `client`;
\* nothing is written when send raises SerializationError
_task(o, c, tid, outcome) ==
    IF Pickles(Reply(tid, outcome)) THEN SendTo(o, c, Reply(tid, outcome))
    ELSE o

\* the exception that leaves _task: host.py does not import the name
\* SerializationError that the except clause of line 177 evaluates
Escapes(tid, outcome) ==
    IF Pickles(Reply(tid, outcome)) THEN NULL ELSE "NameError"

\* --------------------------------------------------------------- workers
\* a thread created at line 145; `of` is the request it was created for,
\* client/tid/code are the values the closure reads in the frame of step
Worker(c, req) ==
    [of |-> <<c, req.tid>>, st |-> "spawned", live |-> TRUE,
     client |-> c, tid |-> req.tid, code |-> req.code,
     outcome |-> Outcome(NULL, NULL)]

\* thread(): a new flow that runs the closure later
thread(ws, w) == ws \cup {w}

\* the assignment `client = self.clients[id(sock)]` (line 124), seen by
\* the closures of this frame that have not run yet
Bind(ws, c) ==
    {IF w.st = "spawned" /\ w.live THEN [w EXCEPT !.client = c] ELSE w : w \in ws}

\* the assignment `tid, op, code = client.connection.recv()` (line 130)
BindReq(ws, c, req) ==
    {IF w.st = "spawned" /\ w.live
     THEN [w EXCEPT !.client = c, !.tid = req.tid, !.code = req.code]
     ELSE w : w \in ws}

\* the frame of step is left: its variables keep their last values
EndFrame(ws) == {[w EXCEPT !.live = FALSE] : w \in ws}

\* ------------------------------------------------------------------ Init
\* SlaveProcess.__init__: the slot of a task nobody answered is None
None == [err |-> NULL, res |-> NULL, rep |-> NULL, full |-> FALSE]

Waiters == 1..MaxWaiters

\* a thread of the client process that has not created its task yet
Idle == [pc |-> "idle", task |-> 0, timed |-> FALSE, expired |-> FALSE,
         ret |-> NULL, exc |-> NULL, tmo |-> FALSE]

\* a session just constructed: no task, nothing received
SessionInit ==
    /\ lastid = 0
    /\ register = Empty
    /\ recvlock = 0
    /\ inbox = <<>>
    /\ inflight = {}
    /\ eof = FALSE
    /\ th = [t \in Waiters |-> Idle]

\* SocketConnection.__init__ (lines 23-28) on both ends of a fresh stream
Fresh ==
    /\ msgs = <<>>
    /\ arrived = 0
    /\ ends = -1
    /\ taken = 0
    /\ current = 0
    /\ pending = 0
    /\ at = "idle"
    /\ within = "none"
    /\ size = 0
    /\ received = 0
    /\ returned = <<>>
    /\ polled = "none"
    /\ tmp = {}

\* no task yet: nothing asked, nothing printed, nothing sent
TaskInit ==
    /\ avail = [by |-> 0, val |-> FALSE]
    /\ stderr = <<>>
    /\ posted = <<>>

\* no handle in the client process, nothing being written by the server
RefInit ==
    /\ shares = [c \in Clients |-> [r \in Objs |-> 0]]
    /\ lent = [c \in Clients |-> [r \in Objs |-> 0]]
    /\ written = <<>>
    /\ sending = {}

\* SlaveProcess.__init__: nothing scheduled yet
ConnInit ==
    /\ Fresh
    /\ TaskInit
    /\ RefInit
    /\ unpolled = 0

\* no object wrapped yet, no handle
HandleInit ==
    /\ heap = Empty
    /\ instances = Empty
    /\ owned = [c \in Clients |-> {}]
    /\ made = Empty
    /\ got = [by |-> "none", kind |-> "none", obj |-> NULL, val |-> <<>>,
              slave |-> NULL, owned |-> FALSE, err |-> NULL]

Init ==
    /\ SessionInit
    /\ HandleInit
    /\ ConnInit
    /\ persistent \in BOOLEAN
    /\ attached \in BOOLEAN
    /\ sockets = <<>>
    /\ clients = Empty
    /\ wrapped = Empty
    /\ pc = "select"
    /\ idx = 1
    /\ busy = FALSE
    /\ workers = {}
    /\ backlog = <<>>
    /\ conn = [c \in Clients |-> "new"]
    /\ sent = [c \in Clients |-> <<>>]
    /\ wire = [c \in Clients |-> <<>>]
    /\ buf = [c \in Clients |-> <<>>]
    /\ out = [c \in Clients |-> <<>>]
    /\ rcvd = [c \in Clients |-> <<>>]

RECURSIVE SumLen(_, _)
SumLen(f, S) ==
    IF S = {} THEN 0
    ELSE LET c == CHOOSE x \in S : TRUE IN Len(f[c]) + SumLen(f, S \ {c})

TotalSent == SumLen(sent, Clients)

\* ------------------------------------------------------- client sessions
\* processing.client: socket.connect
Connect(c) ==
    /\ conn[c] = "new"
    /\ pc \in {"select", "step"}
    /\ conn' = [conn EXCEPT ![c] = "connecting"]
    /\ backlog' = Append(backlog, c)
    /\ UNCHANGED <<sessionVars, handleVars, refVars, sendVars, connVars, bufVars, taskVars>>
    /\ UNCHANGED <<persistent, attached, sockets, clients, wrapped, pc, idx,
                   busy, workers, sent, wire, buf, out, rcvd>>

\* SlaveProcess.__init__: self.sid = connection.recv()
RecvSid(c) ==
    /\ conn[c] = "connecting"
    /\ out[c] # <<>>
    /\ conn' = [conn EXCEPT ![c] = "open"]
    /\ out' = [out EXCEPT ![c] = Tail(@)]
    /\ UNCHANGED <<sessionVars, handleVars, refVars, sendVars, connVars, bufVars, taskVars>>
    /\ UNCHANGED <<persistent, attached, sockets, clients, wrapped, pc, idx,
                   busy, workers, backlog, sent, wire, buf, rcvd>>

\* SlaveProcess.Task.__init__: the next task id, then connection.send
Send(c, op, code) ==
    /\ conn[c] = "open"
    /\ LET req == [tid |-> Len(sent[c]) + 1, op |-> op, code |-> code]
       IN  /\ sent' = [sent EXCEPT ![c] = Append(@, req)]
           /\ wire' = [wire EXCEPT ![c] = Append(@, req)]
    /\ UNCHANGED <<sessionVars, handleVars, refVars, sendVars, connVars, bufVars, taskVars>>
    /\ UNCHANGED <<persistent, attached, sockets, clients, wrapped, pc, idx,
                   busy, workers, backlog, conn, buf, out, rcvd>>

\* SlaveProcess.poll: connection.recv of one reply frame
Recv(c) ==
    /\ conn[c] = "open"
    /\ out[c] # <<>>
    /\ rcvd' = [rcvd EXCEPT ![c] = Append(@, Head(out[c]))]
    /\ out' = [out EXCEPT ![c] = Tail(@)]
    /\ UNCHANGED <<sessionVars, handleVars, refVars, sendVars, connVars, bufVars, taskVars>>
    /\ UNCHANGED <<persistent, attached, sockets, clients, wrapped, pc, idx,
                   busy, workers, backlog, conn, sent, wire, buf>>

\* SlaveProcess.close
Close(c) ==
    /\ conn[c] = "open"
    /\ conn' = [conn EXCEPT ![c] = "closed"]
    /\ out' = [out EXCEPT ![c] = <<>>]
    /\ UNCHANGED <<sessionVars, handleVars, refVars, sendVars, connVars, bufVars, taskVars>>
    /\ UNCHANGED <<persistent, attached, sockets, clients, wrapped, pc, idx,
                   busy, workers, backlog, sent, wire, buf, rcvd>>

\* ------------------------------------------------------- reception flow
\* an accept that registers the client without sending the sid
LoopSelect_nosid ==
    /\ pc = "select"
    /\ \/ backlog # <<>>
       \/ \E i \in 1..Len(sockets) :
             wire[sockets[i]] # <<>> \/ conn[sockets[i]] = "closed"
    /\ IF backlog # <<>>
       THEN LET c == Head(backlog)
            IN  /\ backlog' = Tail(backlog)
                /\ sockets' = Append(sockets, c)
                /\ clients' = [x \in DOMAIN clients \cup {c} |->
                                 IF x = c THEN Counter ELSE clients[x]]
                /\ UNCHANGED out
       ELSE UNCHANGED <<backlog, out, sockets, clients>>
    /\ pc' = "step"
    /\ idx' = 1
    /\ busy' = FALSE
    /\ UNCHANGED <<sessionVars, handleVars, refVars, sendVars, connVars, bufVars, taskVars>>
    /\ UNCHANGED <<persistent, attached, wrapped, workers, conn, sent, wire,
                   buf, rcvd>>

\* Server.loop, lines 75-83: select, then accept one pending connection,
\* send the sid and register the Client; then step is entered
LoopSelect ==
    /\ pc = "select"
    /\ \/ backlog # <<>>
       \/ \E i \in 1..Len(sockets) :
             wire[sockets[i]] # <<>> \/ conn[sockets[i]] = "closed"
    /\ IF backlog # <<>>
       THEN LET c == Head(backlog)
            IN  /\ backlog' = Tail(backlog)
                /\ out' = SendTo(out, c, SidFrame)
                /\ sockets' = Append(sockets, c)
                /\ clients' = [x \in DOMAIN clients \cup {c} |->
                                 IF x = c THEN Counter ELSE clients[x]]
       ELSE UNCHANGED <<backlog, out, sockets, clients>>
    /\ pc' = "step"
    /\ idx' = 1
    /\ busy' = FALSE
    /\ UNCHANGED <<sessionVars, handleVars, refVars, sendVars, connVars, bufVars, taskVars>>
    /\ UNCHANGED <<persistent, attached, wrapped, workers, conn, sent, wire,
                   buf, rcvd>>

\* a loop that exits the process whenever it stops
AfterStep_exits(cl, att, per) ==
    IF DOMAIN cl = {}
    THEN IF att \/ ~per THEN "exited" ELSE "select"
    ELSE "select"

\* Server.loop, lines 88-93: what follows a return of step
AfterStep(cl, att, per) ==
    IF DOMAIN cl = {}
    THEN IF att THEN "exited" ELSE IF ~per THEN "returned" ELSE "select"
    ELSE "select"

\* step returns to loop; sys.exit(1) at line 91 raises SystemExit in the
\* reception flow only, the worker flows go on
Return(cl, att, per, ws) ==
    /\ pc' = AfterStep(cl, att, per)
    /\ idx' = 1
    /\ busy' = FALSE
    /\ workers' = EndFrame(ws)

InStep == pc = "step" /\ idx <= Len(sockets)
\* the socket the for loop of step is at
Cur == sockets[idx]
\* SocketConnection.poll(0): the buffer, refilled from the socket if empty
Polled == IF buf[Cur] # <<>> THEN buf[Cur] ELSE wire[Cur]
\* recv that returns the request received last
Req_newest == Polled[Len(Polled)]
\* SocketConnection.recv: the request read at line 130
Req == Head(Polled)

\* lines 127-130 for a request of opcode op
Receive(op) ==
    /\ InStep
    /\ Polled # <<>>
    /\ Req.op = op
    /\ buf' = [buf EXCEPT ![Cur] = Tail(Polled)]
    /\ wire' = [wire EXCEPT ![Cur] = IF buf[Cur] = <<>> THEN <<>> ELSE @]

\* the for loop goes on with the next socket
Continue ==
    /\ pc' = pc
    /\ idx' = idx + 1
    /\ busy' = TRUE

\* lines 127-128: nothing to read on this socket
PollNothing ==
    /\ InStep
    /\ Polled = <<>>
    /\ conn[Cur] # "closed"
    /\ idx' = idx + 1
    /\ workers' = Bind(workers, Cur)
    /\ UNCHANGED <<sessionVars, handleVars, refVars, sendVars, connVars, bufVars, taskVars>>
    /\ UNCHANGED <<persistent, attached, sockets, clients, wrapped, pc, busy,
                   backlog, conn, sent, wire, buf, out, rcvd>>

\* lines 131-135: the other end dropped the pipe
Disconnect ==
    /\ InStep
    /\ Polled = <<>>
    /\ conn[Cur] = "closed"
    /\ clients' = Forget(clients, Cur)
    /\ sockets' = Remove(sockets, Cur)
    /\ idx' = idx + 1
    /\ workers' = Bind(workers, Cur)
    /\ UNCHANGED <<sessionVars, handleVars, refVars, sendVars, connVars, bufVars, taskVars>>
    /\ UNCHANGED <<persistent, attached, wrapped, pc, busy, backlog, conn,
                   sent, wire, buf, out, rcvd>>

\* lines 139-143
OnClose ==
    /\ Receive(CLOSE)
    /\ out' = SendTo(out, Cur, CloseReply(Req.tid))
    /\ Return(clients, attached, persistent, BindReq(workers, Cur, Req))
    /\ UNCHANGED <<sessionVars, handleVars, refVars, sendVars, connVars, bufVars, taskVars>>
    /\ UNCHANGED <<persistent, attached, sockets, clients, wrapped, backlog,
                   conn, sent, rcvd>>

\* lines 144-145
OnThread ==
    /\ Receive(THREAD)
    /\ Continue
    /\ workers' = thread(BindReq(workers, Cur, Req), Worker(Cur, Req))
    /\ UNCHANGED <<sessionVars, handleVars, refVars, sendVars, connVars, bufVars, taskVars>>
    /\ UNCHANGED <<persistent, attached, sockets, clients, wrapped, backlog,
                   conn, sent, out, rcvd>>

\* lines 146-147
OnBlock ==
    /\ Receive(BLOCK)
    /\ IF Escapes(Req.tid, _run(wrapped, Req.code)) = NULL
       THEN /\ Continue
            /\ workers' = BindReq(workers, Cur, Req)
       ELSE /\ pc' = "crashed"
            /\ idx' = 1
            /\ busy' = FALSE
            /\ workers' = EndFrame(BindReq(workers, Cur, Req))
    /\ out' = _task(out, Cur, Req.tid, _run(wrapped, Req.code))
    /\ UNCHANGED <<sessionVars, handleVars, refVars, sendVars, connVars, bufVars, taskVars>>
    /\ UNCHANGED <<persistent, attached, sockets, clients, wrapped, backlog,
                   conn, sent, rcvd>>

\* lines 148-149
OnWrap ==
    /\ Receive(WRAP)
    /\ Continue
    /\ workers' = BindReq(workers, Cur, Req)
    /\ LET w == _wrap(Reg(wrapped, clients), Cur, Req.code)
       IN  /\ wrapped' = w.reg.wrapped
           /\ clients' = w.reg.clients
           /\ out' = _task(out, Cur, Req.tid, w.outcome)
    /\ UNCHANGED <<sessionVars, handleVars, refVars, sendVars, connVars, bufVars, taskVars>>
    /\ UNCHANGED <<persistent, attached, sockets, backlog, conn, sent, rcvd>>

\* lines 150-151
OnDrop ==
    /\ Receive(DROP)
    /\ Continue
    /\ workers' = BindReq(workers, Cur, Req)
    /\ LET S == _drop(Reg(wrapped, clients), Cur, Req.code.arg)
       IN  /\ wrapped' = S.wrapped
           /\ clients' = S.clients
    /\ UNCHANGED <<sessionVars, handleVars, refVars, sendVars, connVars, bufVars, taskVars>>
    /\ UNCHANGED <<persistent, attached, sockets, backlog, conn, sent, out,
                   rcvd>>

\* lines 152-153
OnOwn ==
    /\ Receive(OWN)
    /\ Continue
    /\ workers' = BindReq(workers, Cur, Req)
    /\ LET S == _own(Reg(wrapped, clients), Cur, Req.code.arg)
       IN  /\ wrapped' = S.wrapped
           /\ clients' = S.clients
    /\ UNCHANGED <<sessionVars, handleVars, refVars, sendVars, connVars, bufVars, taskVars>>
    /\ UNCHANGED <<persistent, attached, sockets, backlog, conn, sent, out,
                   rcvd>>

\* lines 154-156: the flag is set, then self.connection does not exist and
\* the AttributeError leaves step and loop
OnPersist ==
    /\ Receive(PERSIST)
    /\ persistent' = TRUE
    /\ pc' = "crashed"
    /\ idx' = 1
    /\ busy' = FALSE
    /\ workers' = EndFrame(BindReq(workers, Cur, Req))
    /\ UNCHANGED <<sessionVars, handleVars, refVars, sendVars, connVars, bufVars, taskVars>>
    /\ UNCHANGED <<attached, sockets, clients, wrapped, backlog, conn, sent,
                   out, rcvd>>

\* lines 157-159: as for PERSIST
OnDetach ==
    /\ Receive(DETACH)
    /\ attached' = FALSE
    /\ pc' = "crashed"
    /\ idx' = 1
    /\ busy' = FALSE
    /\ workers' = EndFrame(BindReq(workers, Cur, Req))
    /\ UNCHANGED <<sessionVars, handleVars, refVars, sendVars, connVars, bufVars, taskVars>>
    /\ UNCHANGED <<persistent, sockets, clients, wrapped, backlog, conn, sent,
                   out, rcvd>>

\* lines 120-121 and 161-162: the for loop is over
StepEnd ==
    /\ pc = "step"
    /\ idx > Len(sockets)
    /\ IF busy
       THEN /\ busy' = FALSE
            /\ idx' = 1
            /\ UNCHANGED <<pc, workers>>
       ELSE Return(clients, attached, persistent, workers)
    /\ UNCHANGED <<sessionVars, handleVars, refVars, sendVars, connVars, bufVars, taskVars>>
    /\ UNCHANGED <<persistent, attached, sockets, clients, wrapped, backlog,
                   conn, sent, wire, buf, out, rcvd>>

\* --------------------------------------------------------------- workers
\* the closure of line 145 starts: it reads client, tid and code, and
\* _run decodes and calls the payload
WorkerStart(w) ==
    /\ w \in workers
    /\ w.st = "spawned"
    /\ workers' = (workers \ {w}) \cup
                    {[w EXCEPT !.st = "running", !.live = FALSE,
                               !.outcome = _run(wrapped, w.code)]}
    /\ UNCHANGED <<sessionVars, handleVars, refVars, sendVars, connVars, bufVars, taskVars>>
    /\ UNCHANGED <<persistent, attached, sockets, clients, wrapped, pc, idx,
                   busy, backlog, conn, sent, wire, buf, out, rcvd>>

\* the work is over: _task sends the reply
WorkerFinish(w) ==
    /\ w \in workers
    /\ w.st = "running"
    /\ workers' = workers \ {w}
    /\ out' = _task(out, w.client, w.tid, w.outcome)
    /\ UNCHANGED <<sessionVars, handleVars, refVars, sendVars, connVars, bufVars, taskVars>>
    /\ UNCHANGED <<persistent, attached, sockets, clients, wrapped, pc, idx,
                   busy, backlog, conn, sent, wire, buf, rcvd>>

Request(op, code) == [op |-> op, code |-> code]

\* the requests of the sessions of each specification
LifeRequests ==
    {Request(op, NoCode) : op \in {CLOSE, PERSIST, DETACH}}
      \cup {Request(op, Code("val", "v")) : op \in {BLOCK, THREAD}}
TaskRequests ==
    {Request(op, Code(k, a)) : op \in {BLOCK, THREAD},
                               k \in {"val"}, a \in {"v"}}
      \cup {Request(op, Code("raise", NULL)) : op \in {BLOCK, THREAD}}
      \cup {Request(WRAP, Code("obj", "r1"))}
RefRequests ==
    {Request(WRAP, Code("obj", r)) : r \in Roots}
      \cup {Request(op, Code("id", r)) : op \in {DROP, OWN}, r \in Roots}
      \cup {Request(BLOCK, Code("ref", r)) : r \in Roots}

Server ==
    \/ PollNothing
    \/ OnBlock
    \/ StepEnd
    \/ LoopSelect

Sessions(reqs, max) ==
    \E c \in Clients : \E rq \in reqs : TotalSent < max /\ Send(c, rq.op, rq.code)

Receiving == \E c \in Clients : Recv(c)

Threads ==
    \/ OnThread
    \/ \E w \in workers : WorkerStart(w)
    \/ \E w \in workers : WorkerFinish(w)

Registry ==
    \/ OnWrap
    \/ OnDrop
    \/ OnOwn

Leaving ==
    \/ \E c \in Clients : Close(c)
    \/ Disconnect

Lifecycle ==
    \/ \E c \in Clients : Connect(c)
    \/ \E c \in Clients : RecvSid(c)
    \/ OnClose
    \/ OnPersist
    \/ OnDetach

\* the life of a server from its start: connections, tasks, flags, CLOSE
Next ==
    \/ Server \/ Sessions(LifeRequests, MaxSend) \/ Threads
    \/ Leaving \/ Lifecycle

Spec == Init /\ [][Next]_vars

\* a server started with the default flags, two sessions connected
InitServing ==
    /\ SessionInit
    /\ HandleInit
    /\ ConnInit
    /\ persistent = FALSE
    /\ attached = TRUE
    /\ sockets = <<"c1", "c2">>
    /\ clients = [c \in Clients |-> Counter]
    /\ wrapped = Empty
    /\ pc = "select"
    /\ idx = 1
    /\ busy = FALSE
    /\ workers = {}
    /\ backlog = <<>>
    /\ conn = [c \in Clients |-> "open"]
    /\ sent = [c \in Clients |-> <<>>]
    /\ wire = [c \in Clients |-> <<>>]
    /\ buf = [c \in Clients |-> <<>>]
    /\ out = [c \in Clients |-> <<>>]
    /\ rcvd = [c \in Clients |-> <<>>]

\* tasks whose result can or cannot be pickled
EncRequests ==
    {Request(op, Code("val", a)) : op \in {BLOCK, THREAD},
                                   a \in {"v", Unpicklable}}

NextEnc == Server \/ Sessions(EncRequests, MaxTask) \/ Receiving \/ Threads

SpecEnc == InitServing /\ [][NextEnc]_vars

\* a root is wrapped, used through a handle by a task, and dropped
HandleRequests ==
    {Request(WRAP, Code("obj", r)) : r \in Roots}
      \cup {Request(op, Code("ref", r)) : op \in {BLOCK, THREAD}, r \in Roots}
      \cup {Request(DROP, Code("id", r)) : r \in Roots}

NextUse ==
    \/ Server \/ OnWrap \/ OnDrop \/ Threads
    \/ Sessions(HandleRequests, MaxRef)

SpecUse == InitServing /\ [][NextUse]_vars

\* tasks: BLOCK, THREAD and WRAP requests of two connected sessions
NextTask ==
    Server \/ OnWrap \/ Sessions(TaskRequests, MaxTask) \/ Receiving \/ Threads

SpecTask == InitServing /\ [][NextTask]_vars

\* handles: WRAP, OWN, DROP and dereferences, with disconnections
NextRef == Server \/ Sessions(RefRequests, MaxRef) \/ Registry \/ Leaving

SpecRef == InitServing /\ [][NextRef]_vars

\* ------------------------------------------------------ client session
\* one session of a client process and the threads that wait on its tasks;
\* unpolled stays far below max_unpolled, so _unpoll never drains
Results == <<"v1", "v2", "v3", "v4">>
\* the reply frame (id, err, result, report) the server sends for task k
Answer(k) == Reply(k, Outcome(NULL, Results[((k - 1) % Len(Results)) + 1]))

\* the tuple (err, result, report) poll stores in the register
Slot(frame) == [err |-> frame.err, res |-> frame.res, rep |-> frame.rep,
                full |-> TRUE]

\* a poll that stores the reply in the first pending slot
poll_first(reg, frame) ==
    IF \E k \in DOMAIN reg : ~reg[k].full
    THEN LET k == CHOOSE k \in DOMAIN reg :
                     ~reg[k].full /\ \A j \in DOMAIN reg : ~reg[j].full => k <= j
         IN  [reg EXCEPT ![k] = Slot(frame)]
    ELSE reg

\* SlaveProcess.poll, lines 328-329: the reply goes to the slot of its id
poll(reg, frame) ==
    IF frame.tid \in DOMAIN reg THEN [reg EXCEPT ![frame.tid] = Slot(frame)]
    ELSE reg

\* a poll that prints nothing
report_never(lg, reg, frame) == lg

\* SlaveProcess.poll, lines 331-333: the error of a reply nobody waits for is
\* printed
report(lg, reg, frame) ==
    IF frame.tid \notin DOMAIN reg /\ frame.err # NULL
    THEN Append(lg, [tid |-> frame.tid, by |-> "poll"])
    ELSE lg

\* recvsig.notify_all: the threads inside recvsig.wait leave it
notify_all(T) ==
    [t \in DOMAIN T |-> IF T[t].pc = "waiting" THEN [T[t] EXCEPT !.pc = "check"]
                        ELSE T[t]]

\* Task.__init__: a new id, an empty slot, the request is sent; the
\* threads are numbered in the order in which they create their tasks
Schedule(t) ==
    /\ th[t].pc = "idle"
    /\ th[t].task = 0
    /\ \A u \in Waiters : u < t => th[u].task # 0
    /\ lastid' = lastid + 1
    /\ register' = [k \in DOMAIN register \cup {lastid + 1} |->
                      IF k = lastid + 1 THEN None ELSE register[k]]
    /\ inflight' = inflight \cup {lastid + 1}
    /\ th' = [th EXCEPT ![t].task = lastid + 1]
    /\ UNCHANGED <<recvlock, inbox, eof>>
    /\ UNCHANGED <<serverVars, handleVars, refVars, sendVars, connVars, bufVars, taskVars>>

\* SlaveProcess.Task.wait, lines 423-427: what the waiter gets from a slot
wait(slot) ==
    IF slot.err # NULL THEN [raises |-> slot.err, returns |-> NULL]
    ELSE [raises |-> NULL, returns |-> slot.res]

\* Task.wait, lines 423-427: the slot is taken and emptied
Take(t) ==
    /\ th' = [th EXCEPT ![t].pc = "done",
                        ![t].ret = wait(register[th[t].task]).returns,
                        ![t].exc = wait(register[th[t].task]).raises]
    /\ register' = [register EXCEPT ![th[t].task] = None]

\* Task.wait is called, line 403; timed tells whether a timeout is given
WaitCall(t, timed) ==
    /\ th[t].pc = "idle"
    /\ th[t].task # 0
    /\ IF register[th[t].task].full
       THEN Take(t)
       ELSE /\ th' = [th EXCEPT ![t].pc = "try", ![t].timed = timed,
                                ![t].expired = FALSE, ![t].exc = NULL]
            /\ UNCHANGED register
    /\ UNCHANGED <<lastid, recvlock, inbox, inflight, eof>>
    /\ UNCHANGED <<serverVars, handleVars, refVars, sendVars, connVars, bufVars, taskVars>>

\* line 409: recvlock.acquire(False)
TryLock(t) ==
    /\ th[t].pc = "try"
    /\ IF recvlock = 0
       THEN /\ recvlock' = t
            /\ th' = [th EXCEPT ![t].pc = "poll"]
       ELSE /\ th' = [th EXCEPT ![t].pc = "cond"]
            /\ UNCHANGED recvlock
    /\ UNCHANGED <<lastid, register, inbox, inflight, eof>>
    /\ UNCHANGED <<serverVars, handleVars, refVars, sendVars, connVars, bufVars, taskVars>>

\* lines 412-414: the thread that did not get the lock enters recvsig.wait
EnterWait(t) ==
    /\ th[t].pc = "cond"
    /\ th' = [th EXCEPT ![t].pc = "waiting"]
    /\ UNCHANGED <<lastid, register, recvlock, inbox, inflight, eof>>
    /\ UNCHANGED <<serverVars, handleVars, refVars, sendVars, connVars, bufVars, taskVars>>

\* recvsig.wait(delay) returns because the delay is over
WaitTimeout(t) ==
    /\ th[t].pc = "waiting"
    /\ th[t].timed
    /\ th' = [th EXCEPT ![t].pc = "check", ![t].expired = TRUE]
    /\ UNCHANGED <<lastid, register, recvlock, inbox, inflight, eof>>
    /\ UNCHANGED <<serverVars, handleVars, refVars, sendVars, connVars, bufVars, taskVars>>

\* poll(delay) under the lock, lines 326-334: one reply is received
PollRecv(t) ==
    /\ th[t].pc = "poll"
    /\ inbox # <<>>
    /\ inbox' = Tail(inbox)
    /\ register' = poll(register, Head(inbox))
    /\ th' = IF Head(inbox).tid \in DOMAIN register
             THEN [notify_all(th) EXCEPT ![t].pc = "release"]
             ELSE [th EXCEPT ![t].pc = "release"]
    /\ stderr' = report(stderr, register, Head(inbox))
    /\ UNCHANGED <<lastid, recvlock, inflight, eof, avail, posted>>
    /\ UNCHANGED <<serverVars, handleVars, refVars, sendVars, connVars, bufVars>>

\* poll(delay) returns False: nothing came within the delay
PollTimeout(t) ==
    /\ th[t].pc = "poll"
    /\ th[t].timed
    /\ inbox = <<>>
    /\ ~eof
    /\ th' = [th EXCEPT ![t].pc = "release", ![t].expired = TRUE]
    /\ UNCHANGED <<lastid, register, recvlock, inbox, inflight, eof>>
    /\ UNCHANGED <<serverVars, handleVars, refVars, sendVars, connVars, bufVars, taskVars>>

\* a wait that leaves on EOFError without its finally clause
PollEOF_held(t) ==
    /\ th[t].pc = "poll"
    /\ inbox = <<>>
    /\ eof
    /\ th' = [th EXCEPT ![t].pc = "failed", ![t].exc = "EOFError"]
    /\ UNCHANGED <<lastid, register, recvlock, inbox, inflight, eof>>
    /\ UNCHANGED <<serverVars, handleVars, refVars, sendVars, connVars, bufVars, taskVars>>

\* connection.poll or recv raises EOFError: the finally clause releases the
\* lock and the exception leaves Task.wait
PollEOF(t) ==
    /\ th[t].pc = "poll"
    /\ inbox = <<>>
    /\ eof
    /\ recvlock' = 0
    /\ th' = [th EXCEPT ![t].pc = "failed", ![t].exc = "EOFError"]
    /\ UNCHANGED <<lastid, register, inbox, inflight, eof>>
    /\ UNCHANGED <<serverVars, handleVars, refVars, sendVars, connVars, bufVars, taskVars>>

\* line 411: recvlock.release()
Release(t) ==
    /\ th[t].pc = "release"
    /\ recvlock' = 0
    /\ th' = [th EXCEPT ![t].pc = "check"]
    /\ UNCHANGED <<lastid, register, inbox, inflight, eof>>
    /\ UNCHANGED <<serverVars, handleVars, refVars, sendVars, connVars, bufVars, taskVars>>

\* lines 416-422: the slot is filled, or the delay is over, or once more
Check(t) ==
    /\ th[t].pc = "check"
    /\ IF register[th[t].task].full
       THEN Take(t)
       ELSE /\ UNCHANGED register
            /\ \/ /\ th[t].timed
                  /\ th' = [th EXCEPT ![t].pc = "idle",
                                      ![t].exc = "TimeoutError", ![t].tmo = TRUE]
               \/ /\ ~(th[t].timed /\ th[t].expired)
                  /\ th' = [th EXCEPT ![t].pc = "try"]
    /\ UNCHANGED <<lastid, recvlock, inbox, inflight, eof>>
    /\ UNCHANGED <<serverVars, handleVars, refVars, sendVars, connVars, bufVars, taskVars>>

\* the server answers task k: Server._task sends its reply
Deliver(k) ==
    /\ k \in inflight
    /\ ~eof
    /\ inbox' = Append(inbox, Answer(k))
    /\ inflight' = inflight \ {k}
    /\ UNCHANGED <<lastid, register, recvlock, eof, th>>
    /\ UNCHANGED <<serverVars, handleVars, refVars, sendVars, connVars, bufVars, taskVars>>

\* the connection fails: the peer is gone or the link is reset
Fail ==
    /\ ~eof
    /\ eof' = TRUE
    /\ UNCHANGED <<lastid, register, recvlock, inbox, inflight, th>>
    /\ UNCHANGED <<serverVars, handleVars, refVars, sendVars, connVars, bufVars, taskVars>>

Waiting ==
    \/ \E t \in Waiters : Schedule(t)
    \/ \E t \in Waiters : \E timed \in BOOLEAN : WaitCall(t, timed)
    \/ \E t \in Waiters : TryLock(t)
    \/ \E t \in Waiters : EnterWait(t)
    \/ \E t \in Waiters : WaitTimeout(t)
    \/ \E t \in Waiters : Check(t)

Polling ==
    \/ \E t \in Waiters : PollRecv(t)
    \/ \E t \in Waiters : PollTimeout(t)
    \/ \E t \in Waiters : PollEOF(t)
    \/ \E t \in Waiters : Release(t)

Peer ==
    \/ \E k \in inflight : Deliver(k)
    \/ Fail

\* the threads of a client process waiting on the tasks of one session
NextWait == Waiting \/ Polling \/ Peer

SpecWait == InitServing /\ [][NextWait]_vars

\* ------------------------------------------------------- tasks of a session
\* the threads of a client process that create tasks on one session, ask
\* whether they are available, wait for them and discard them

\* tasks followed from the time the session has made max_unpolled - 1 of them
MaxJobs == 2

\* Task.__init__, lines 354-359, then _unpoll, lines 338-339: a new id, an
\* empty slot, and the receive lock is taken if a drain is due
Alloc(t) ==
    /\ th[t].pc = "idle"
    /\ th[t].task = 0
    /\ lastid < max_unpolled - 1 + MaxJobs
    /\ lastid' = lastid + 1
    /\ register' = [k \in DOMAIN register \cup {lastid + 1} |->
                      IF k = lastid + 1 THEN None ELSE register[k]]
    /\ unpolled' = unpolled + 1
    /\ IF unpolled + 1 > max_unpolled /\ recvlock = 0
       THEN /\ recvlock' = t
            /\ th' = [th EXCEPT ![t].task = lastid + 1, ![t].pc = "d.poll"]
       ELSE /\ th' = [th EXCEPT ![t].task = lastid + 1, ![t].pc = "send"]
            /\ UNCHANGED recvlock
    /\ UNCHANGED <<inbox, inflight, eof>>
    /\ UNCHANGED <<serverVars, handleVars, refVars, sendVars, streamVars, bufVars, taskVars>>

\* _unpoll, line 341: one turn of `while self.poll(0)`
DrainPoll(t) ==
    /\ th[t].pc = "d.poll"
    /\ IF inbox # <<>>
       THEN /\ inbox' = Tail(inbox)
            /\ register' = poll(register, Head(inbox))
            /\ stderr' = report(stderr, register, Head(inbox))
            /\ th' = IF Head(inbox).tid \in DOMAIN register
                     THEN [notify_all(th) EXCEPT ![t].pc = "d.poll"]
                     ELSE th
            /\ UNCHANGED <<recvlock, unpolled>>
       ELSE IF eof
       THEN /\ recvlock' = 0
            /\ th' = [th EXCEPT ![t].pc = "failed", ![t].exc = "EOFError"]
            /\ UNCHANGED <<inbox, register, stderr, unpolled>>
       ELSE /\ unpolled' = 0
            /\ th' = [th EXCEPT ![t].pc = "d.release"]
            /\ UNCHANGED <<inbox, register, stderr, recvlock>>
    /\ UNCHANGED <<lastid, inflight, eof, avail, posted>>
    /\ UNCHANGED <<serverVars, handleVars, refVars, sendVars, streamVars, bufVars>>

\* _unpoll, line 344
DrainRelease(t) ==
    /\ th[t].pc = "d.release"
    /\ recvlock' = 0
    /\ th' = [th EXCEPT ![t].pc = "send"]
    /\ UNCHANGED <<lastid, register, inbox, inflight, eof>>
    /\ UNCHANGED <<serverVars, handleVars, refVars, sendVars, connVars, bufVars, taskVars>>

\* Task.__init__, lines 371-372: the request is written under sendlock
Post(t) ==
    /\ th[t].pc = "send"
    /\ posted' = Append(posted, th[t].task)
    /\ inflight' = inflight \cup {th[t].task}
    /\ th' = [th EXCEPT ![t].pc = "idle"]
    /\ UNCHANGED <<lastid, register, recvlock, inbox, eof, avail, stderr>>
    /\ UNCHANGED <<serverVars, handleVars, refVars, sendVars, connVars, bufVars>>

\* Task.wait has returned the result of the task of t, or raised its error
Waited(t) == th[t].ret # NULL \/ th[t].exc = "Exception"

\* Task.available is called, line 386
AvailCall(t) ==
    /\ th[t].pc \in {"idle", "done"}
    /\ th[t].task \in DOMAIN register
    /\ IF register[th[t].task].full
       THEN /\ avail' = [by |-> t, val |-> TRUE]
            /\ UNCHANGED th
       ELSE /\ th' = [th EXCEPT ![t].pc = "a.try"]
            /\ UNCHANGED avail
    /\ UNCHANGED <<lastid, register, recvlock, inbox, inflight, eof, stderr,
                   posted>>
    /\ UNCHANGED <<serverVars, handleVars, refVars, sendVars, connVars, bufVars>>

\* line 387: recvlock.acquire(False)
AvailTry(t) ==
    /\ th[t].pc = "a.try"
    /\ IF recvlock = 0
       THEN /\ recvlock' = t
            /\ th' = [th EXCEPT ![t].pc = "a.poll"]
       ELSE /\ th' = [th EXCEPT ![t].pc = "a.check"]
            /\ UNCHANGED recvlock
    /\ UNCHANGED <<lastid, register, inbox, inflight, eof>>
    /\ UNCHANGED <<serverVars, handleVars, refVars, sendVars, connVars, bufVars, taskVars>>

\* line 388: self.slave.poll(0)
AvailPoll(t) ==
    /\ th[t].pc = "a.poll"
    /\ IF inbox # <<>>
       THEN /\ inbox' = Tail(inbox)
            /\ register' = poll(register, Head(inbox))
            /\ stderr' = report(stderr, register, Head(inbox))
            /\ th' = IF Head(inbox).tid \in DOMAIN register
                     THEN [notify_all(th) EXCEPT ![t].pc = "a.release"]
                     ELSE [th EXCEPT ![t].pc = "a.release"]
            /\ UNCHANGED recvlock
       ELSE IF eof
       THEN /\ recvlock' = 0
            /\ th' = [th EXCEPT ![t].pc = "failed", ![t].exc = "EOFError"]
            /\ UNCHANGED <<inbox, register, stderr>>
       ELSE /\ th' = [th EXCEPT ![t].pc = "a.release"]
            /\ UNCHANGED <<inbox, register, stderr, recvlock>>
    /\ UNCHANGED <<lastid, inflight, eof, avail, posted>>
    /\ UNCHANGED <<serverVars, handleVars, refVars, sendVars, connVars, bufVars>>

\* line 389: recvlock.release()
AvailRelease(t) ==
    /\ th[t].pc = "a.release"
    /\ recvlock' = 0
    /\ th' = [th EXCEPT ![t].pc = "a.check"]
    /\ UNCHANGED <<lastid, register, inbox, inflight, eof>>
    /\ UNCHANGED <<serverVars, handleVars, refVars, sendVars, connVars, bufVars, taskVars>>

\* lines 390-391: the answer of available
AvailCheck(t) ==
    /\ th[t].pc = "a.check"
    /\ avail' = [by |-> t, val |-> register[th[t].task].full]
    /\ th' = [th EXCEPT ![t].pc = IF Waited(t) THEN "done" ELSE "idle"]
    /\ UNCHANGED <<lastid, register, recvlock, inbox, inflight, eof, stderr,
                   posted>>
    /\ UNCHANGED <<serverVars, handleVars, refVars, sendVars, connVars, bufVars>>

\* Task.__del__, lines 374-380: the last reference to the task of t goes
Discard(t) ==
    /\ th[t].pc \in {"idle", "done"}
    /\ th[t].task \in DOMAIN register
    /\ register' = [k \in DOMAIN register \ {th[t].task} |-> register[k]]
    /\ stderr' = IF register[th[t].task].err # NULL
                 THEN Append(stderr, [tid |-> th[t].task, by |-> "__del__"])
                 ELSE stderr
    /\ th' = [th EXCEPT ![t] = Idle]
    /\ UNCHANGED <<lastid, recvlock, inbox, inflight, eof, avail, posted>>
    /\ UNCHANGED <<serverVars, handleVars, refVars, sendVars, connVars, bufVars>>

\* the server answers task k with the error its code raised
Throw(k) ==
    /\ k \in inflight
    /\ ~eof
    /\ inbox' = Append(inbox, Reply(k, Outcome("Exception", NULL)))
    /\ inflight' = inflight \ {k}
    /\ UNCHANGED <<lastid, register, recvlock, eof, th>>
    /\ UNCHANGED <<serverVars, handleVars, refVars, sendVars, connVars, bufVars, taskVars>>

Scheduling ==
    \/ \E t \in Waiters : Alloc(t)
    \/ \E t \in Waiters : DrainPoll(t)
    \/ \E t \in Waiters : DrainRelease(t)
    \/ \E t \in Waiters : Post(t)
    \/ \E t \in Waiters : Discard(t)

Asking ==
    \/ \E t \in Waiters : AvailCall(t)
    \/ \E t \in Waiters : AvailTry(t)
    \/ \E t \in Waiters : AvailPoll(t)
    \/ \E t \in Waiters : AvailRelease(t)
    \/ \E t \in Waiters : AvailCheck(t)

Blocking ==
    \/ \E t \in Waiters : WaitCall(t, FALSE)
    \/ \E t \in Waiters : TryLock(t)
    \/ \E t \in Waiters : EnterWait(t)
    \/ \E t \in Waiters : Check(t)
    \/ \E t \in Waiters : PollRecv(t)
    \/ \E t \in Waiters : PollEOF(t)
    \/ \E t \in Waiters : Release(t)

Answering ==
    \/ \E k \in inflight : Deliver(k)
    \/ \E k \in inflight : Throw(k)
    \/ Fail

NextSched == Scheduling \/ Asking \/ Blocking \/ Answering

\* a session that scheduled n tasks since its last drain, got all their
\* results and discarded them
Scheduled(n) ==
    /\ lastid = n
    /\ unpolled = n
    /\ register = Empty
    /\ recvlock = 0
    /\ inbox = <<>>
    /\ inflight = {}
    /\ eof = FALSE
    /\ th = [t \in Waiters |-> Idle]

InitSched ==
    /\ Scheduled(max_unpolled - 1)
    /\ HandleInit
    /\ Fresh
    /\ TaskInit
    /\ RefInit
    /\ persistent = FALSE
    /\ attached = TRUE
    /\ sockets = <<"c1", "c2">>
    /\ clients = [c \in Clients |-> Counter]
    /\ wrapped = Empty
    /\ pc = "select"
    /\ idx = 1
    /\ busy = FALSE
    /\ workers = {}
    /\ backlog = <<>>
    /\ conn = [c \in Clients |-> "open"]
    /\ sent = [c \in Clients |-> <<>>]
    /\ wire = [c \in Clients |-> <<>>]
    /\ buf = [c \in Clients |-> <<>>]
    /\ out = [c \in Clients |-> <<>>]
    /\ rcvd = [c \in Clients |-> <<>>]

SpecSched == InitSched /\ [][NextSched]_vars

\* ------------------------------------------------- a session and its server
\* the session whose register is followed
Session == "c1"

\* Task.__init__: a new id, an empty slot, and the request goes to the server
Submit(t, op) ==
    /\ th[t].pc = "idle"
    /\ th[t].task = 0
    /\ \A u \in Waiters : u < t => th[u].task # 0
    /\ conn[Session] = "open"
    /\ lastid < MaxTask
    /\ lastid' = lastid + 1
    /\ register' = [k \in DOMAIN register \cup {lastid + 1} |->
                      IF k = lastid + 1 THEN None ELSE register[k]]
    /\ th' = [th EXCEPT ![t].task = lastid + 1]
    /\ LET req == [tid |-> lastid + 1, op |-> op, code |-> Code("val", "v")]
       IN  /\ sent' = [sent EXCEPT ![Session] = Append(@, req)]
           /\ wire' = [wire EXCEPT ![Session] = Append(@, req)]
    /\ UNCHANGED <<recvlock, inbox, inflight, eof>>
    /\ UNCHANGED <<handleVars, refVars, sendVars, connVars, bufVars, taskVars>>
    /\ UNCHANGED <<persistent, attached, sockets, clients, wrapped, pc, idx,
                   busy, workers, backlog, conn, buf, out, rcvd>>

\* the stream brings the next reply frame of the server to the session
Carry ==
    /\ out[Session] # <<>>
    /\ inbox' = Append(inbox, Head(out[Session]))
    /\ out' = [out EXCEPT ![Session] = Tail(@)]
    /\ UNCHANGED <<lastid, register, recvlock, inflight, eof, th>>
    /\ UNCHANGED <<handleVars, refVars, sendVars, connVars, bufVars, taskVars>>
    /\ UNCHANGED <<persistent, attached, sockets, clients, wrapped, pc, idx,
                   busy, workers, backlog, conn, sent, wire, buf, rcvd>>

Tasks ==
    \/ \E t \in Waiters : \E op \in {BLOCK, THREAD} : Submit(t, op)
    \/ \E t \in Waiters : WaitCall(t, FALSE)
    \/ \E t \in Waiters : TryLock(t)
    \/ \E t \in Waiters : EnterWait(t)
    \/ \E t \in Waiters : Check(t)
    \/ \E t \in Waiters : PollRecv(t)
    \/ \E t \in Waiters : Release(t)
    \/ \E t \in Waiters : Discard(t)
    \/ Carry

NextSlot == Server \/ Threads \/ Tasks

SpecSlot == InitServing /\ [][NextSlot]_vars

\* -------------------------------------------------------------- handles
\* a server A, and a client process M that opens sessions c1 and c2 to it,
\* wraps objects, works on them through its handles and decodes handles;
\* each request is handled by the reception flow in one step
Live(o) ==
    [by |-> "none", kind |-> "object", obj |-> o, val |-> <<>>,
     slave |-> NULL, owned |-> FALSE, err |-> NULL]
Value(v) ==
    [by |-> "none", kind |-> "value", obj |-> NULL, val |-> v,
     slave |-> NULL, owned |-> FALSE, err |-> NULL]
Method(o) ==
    [by |-> "none", kind |-> "method", obj |-> o, val |-> <<>>,
     slave |-> NULL, owned |-> FALSE, err |-> NULL]
Raised(e) ==
    [by |-> "none", kind |-> "error", obj |-> NULL, val |-> <<>>,
     slave |-> NULL, owned |-> FALSE, err |-> e]
\* RemoteObject(WrappedObject(slave, id, owned), address)
Handle(c, o, own) ==
    [by |-> "none", kind |-> "handle", obj |-> o, val |-> <<>>,
     slave |-> c, owned |-> own, err |-> NULL]

\* the result g, as given by operation op
By(op, g) == [g EXCEPT !.by = op]

\* the addresses a handle can carry: a root, then at most one element
Address(o) == <<<<ITEM, o>>>>
Addresses ==
    {Address(o) : o \in Objs}
      \cup {Address(o) \o <<<<k, "append">>>> : o \in Objs, k \in {ITEM, ATTR}}

\* host.unwrap, line 229: id = next(it)[1]
Root(address) == address[1][2]

\* host.unwrap on a full address: the root, then getattr for ATTR and
\* indexing for ITEM; the objects wrapped here are lists
Resolve(reg, hp, address) ==
    LET u == unwrap(reg, Root(address))
    IN  IF u.err # NULL THEN Raised(u.err)
        ELSE IF Len(address) = 1 THEN Live(u.res)
        ELSE IF address[2][1] = ATTR THEN Method(u.res)
        ELSE Raised("TypeError")

\* a decode that resolves nothing in the owning process
_restore_copy(host_sid, inst, reg, hp, sid, address) ==
    IF sid = host_sid
    THEN LET r == Resolve(reg, hp, address)
         IN  IF r.kind = "object" THEN Value(hp[r.obj]) ELSE r
    ELSE IF sid \in DOMAIN inst
         THEN Handle(inst[sid], Root(address), FALSE)
         ELSE Raised("ValueError")

\* RemoteObject._restore in the process whose host.sid is host_sid, whose
\* SlaveProcess.instances is inst and whose registry is reg
_restore(host_sid, inst, reg, hp, sid, address) ==
    IF sid = host_sid THEN Resolve(reg, hp, address)
    ELSE IF sid \in DOMAIN inst
         THEN Handle(inst[sid], Root(address), FALSE)
         ELSE Raised("ValueError")

\* client(address) in M: the connection is accepted, the sid received and
\* the session registered under it (processing.py lines 214-218)
HOpen(c) ==
    /\ conn[c] = "new"
    /\ conn' = [conn EXCEPT ![c] = "open"]
    /\ sockets' = Append(sockets, c)
    /\ clients' = [x \in DOMAIN clients \cup {c} |->
                     IF x = c THEN Counter ELSE clients[x]]
    /\ instances' = [x \in DOMAIN instances \cup {"A"} |->
                       IF x = "A" THEN c ELSE instances[x]]
    /\ UNCHANGED <<persistent, attached, wrapped, pc, idx, busy, workers,
                   backlog, sent, wire, buf, out, rcvd>>
    /\ UNCHANGED <<heap, owned, made, got>>
    /\ UNCHANGED <<sessionVars, connVars, bufVars, taskVars, refVars, sendVars>>

\* the session object is collected: its entry of the WeakValueDictionary
\* goes if it is still the registered one, the connection closes and the
\* server forgets the client (host.py lines 131-135)
HGone(c) ==
    /\ conn[c] = "open"
    /\ owned[c] = {}
    /\ conn' = [conn EXCEPT ![c] = "closed"]
    /\ instances' = IF "A" \in DOMAIN instances /\ instances["A"] = c
                    THEN Empty ELSE instances
    /\ clients' = Forget(clients, c)
    /\ sockets' = Remove(sockets, c)
    /\ UNCHANGED <<persistent, attached, wrapped, pc, idx, busy, workers,
                   backlog, sent, wire, buf, out, rcvd>>
    /\ UNCHANGED <<heap, owned, made, got>>
    /\ UNCHANGED <<sessionVars, connVars, bufVars, taskVars, refVars, sendVars>>

\* SlaveProcess.wrap(f) on session c: the WRAP request is run by
\* Server._wrap and the reply gives the root of an owned handle; f either
\* builds a new list v, or returns the object of a handle of M
HWrap(c, code, v) ==
    /\ conn[c] = "open"
    /\ code.arg \notin owned[c]
    /\ \/ code.kind = "obj" /\ code.arg \notin DOMAIN heap
       \/ code.kind = "ref" /\ \E d \in Clients : code.arg \in owned[d]
    /\ LET S == _wrap(Reg(wrapped, clients), c, code)
       IN  /\ wrapped' = S.reg.wrapped
           /\ clients' = S.reg.clients
           /\ IF S.outcome.err = NULL
              THEN /\ owned' = [owned EXCEPT ![c] = @ \cup {S.outcome.res}]
                   /\ got' = By("wrap", Handle(c, S.outcome.res, TRUE))
              ELSE /\ got' = By("wrap", Raised(S.outcome.err))
                   /\ UNCHANGED owned
    /\ IF code.kind = "obj"
       THEN /\ heap' = [x \in DOMAIN heap \cup {code.arg} |->
                          IF x = code.arg THEN v ELSE heap[x]]
            /\ made' = [x \in DOMAIN made \cup {code.arg} |->
                          IF x = code.arg THEN v ELSE made[x]]
       ELSE UNCHANGED <<heap, made>>
    /\ UNCHANGED <<persistent, attached, sockets, pc, idx, busy, workers,
                   backlog, conn, sent, wire, buf, out, rcvd>>
    /\ UNCHANGED instances
    /\ UNCHANGED <<sessionVars, connVars, bufVars, taskVars, refVars, sendVars>>

\* handle.append(x): RemoteObject.__getattr__ then __call__, run on the
\* server by host.call(address, args, kwargs)
HCall(c, o, x) ==
    /\ conn[c] = "open"
    /\ o \in owned[c]
    /\ Len(made[o]) < MaxLen
    /\ LET f == Resolve(wrapped, heap, Address(o) \o <<<<ATTR, "append">>>>)
       IN  IF f.kind = "method"
           THEN /\ heap' = [heap EXCEPT ![f.obj] = Append(@, x)]
                /\ made' = [made EXCEPT ![o] = Append(@, x)]
                /\ got' = By("call", Value(<<>>))
           ELSE /\ got' = By("call", f)
                /\ UNCHANGED <<heap, made>>
    /\ UNCHANGED serverVars
    /\ UNCHANGED <<instances, owned>>
    /\ UNCHANGED <<sessionVars, connVars, bufVars, taskVars, refVars, sendVars>>

\* handle.unwrap(): host.unwrap(address) runs on the server and the reply
\* carries the serialized value of the object
HUnwrap(c, o) ==
    /\ conn[c] = "open"
    /\ o \in owned[c]
    /\ LET r == Resolve(wrapped, heap, Address(o))
       IN  got' = By("unwrap", IF r.kind = "object" THEN Value(heap[r.obj])
                                ELSE r)
    /\ UNCHANGED serverVars
    /\ UNCHANGED <<heap, instances, owned, made>>
    /\ UNCHANGED <<sessionVars, connVars, bufVars, taskVars, refVars, sendVars>>

\* WrappedObject.__del__ of an owned handle: DROP, run by Server._drop
HDrop(c, o) ==
    /\ conn[c] = "open"
    /\ o \in owned[c]
    /\ owned' = [owned EXCEPT ![c] = @ \ {o}]
    /\ LET S == _drop(Reg(wrapped, clients), c, o)
       IN  /\ wrapped' = S.wrapped
           /\ clients' = S.clients
    /\ UNCHANGED <<persistent, attached, sockets, pc, idx, busy, workers,
                   backlog, conn, sent, wire, buf, out, rcvd>>
    /\ UNCHANGED <<heap, instances, made, got>>
    /\ UNCHANGED <<sessionVars, connVars, bufVars, taskVars, refVars, sendVars>>

\* a pickled handle (sid, address) is decoded in process p: the server A,
\* which holds the registry and no session, or the client process M
HDecode(p, sid, address) ==
    /\ got' = By("decode",
                  _restore(p, IF p = "M" THEN instances ELSE Empty,
                           IF p = "A" THEN wrapped ELSE Empty, heap, sid,
                           address))
    /\ UNCHANGED serverVars
    /\ UNCHANGED <<heap, instances, owned, made>>
    /\ UNCHANGED <<sessionVars, connVars, bufVars, taskVars, refVars, sendVars>>

\* a server that stays, nobody connected yet
InitHandle ==
    /\ persistent = TRUE
    /\ attached = FALSE
    /\ sockets = <<>>
    /\ clients = Empty
    /\ wrapped = Empty
    /\ pc = "select"
    /\ idx = 1
    /\ busy = FALSE
    /\ workers = {}
    /\ backlog = <<>>
    /\ conn = [c \in Clients |-> "new"]
    /\ sent = [c \in Clients |-> <<>>]
    /\ wire = [c \in Clients |-> <<>>]
    /\ buf = [c \in Clients |-> <<>>]
    /\ out = [c \in Clients |-> <<>>]
    /\ rcvd = [c \in Clients |-> <<>>]
    /\ SessionInit
    /\ HandleInit
    /\ ConnInit

WrapCodes == {Code(k, o) : k \in {"obj", "ref"}, o \in Objs}

Bridging ==
    \/ \E c \in Clients : HOpen(c)
    \/ \E c \in Clients : HGone(c)
    \/ \E p \in {"A", "M"} : \E sid \in Sids : \E a \in Addresses :
          HDecode(p, sid, a)

Handles ==
    \/ \E c \in Clients : \E code \in WrapCodes : \E v \in {<<>>, <<1>>} :
          HWrap(c, code, v)
    \/ \E c \in Clients : \E o \in Objs : HCall(c, o, 1)
    \/ \E c \in Clients : \E o \in Objs : HUnwrap(c, o)
    \/ \E c \in Clients : \E o \in Objs : HDrop(c, o)

\* the handles of a client process on the objects of one server
NextHandle == Bridging \/ Handles

SpecHandle == InitHandle /\ [][NextHandle]_vars

\* ------------------------------------------------------- SocketConnection
\* one direction of a stream between two SocketConnection objects: the peer
\* sends pickles, one thread of this process receives them. A byte is named
\* by its position in the stream, a pickle by its length.
\* lengths of the pickles sent: below max_concat, above it, above max_temp
Sizes == {10, 600, 5000}
MaxMsgs == 2
\* the calls of _unpoll followed are the last MaxSched ones before a drain
MaxSched == 2

Min(a, b) == IF a < b THEN a ELSE b

\* bytes of the frame of the i-th pickle: header.pack(len(data)) + data
Frame(i) == header_size + msgs[i]

RECURSIVE Start(_)
\* position in the stream of the first byte of the i-th frame
Start(i) == IF i = 1 THEN 0 ELSE Start(i - 1) + Frame(i - 1)

\* bytes written to the stream so far
Total == Start(Len(msgs) + 1)

\* SocketConnection.send: the lengths of its sendall calls for n bytes of pickle
send(n) == IF n < max_concat THEN <<header_size + n>> ELSE <<header_size, n>>

\* positions where the stream may pause before the rest arrives: the end of
\* each sendall, and the places inside a header and inside a body where the
\* transport split a write
Cuts ==
    UNION {{Start(i) + 2, Start(i) + header_size,
            Start(i) + header_size + (msgs[i] \div 2),
            Start(i) + send(msgs[i])[1], Start(i) + Frame(i)}
           : i \in 1..Len(msgs)}

\* bytes waiting in the receiving socket
Avail == arrived - taken
\* recv_into finds the end of the stream
AtEOF == ends >= 0 /\ taken = ends
\* position in the stream of the byte at tmp[current]
Position == taken - (pending - current)

\* header.unpack on the 4 bytes at stream position p: the length the sender
\* packed when p is where a frame starts, else not a length anyone sent
unpack(p) ==
    IF \E i \in 1..Len(msgs) : Start(i) = p
    THEN msgs[CHOOSE i \in 1..Len(msgs) : Start(i) = p]
    ELSE 0

\* what a recv call gave: the bytes from..from+len of the stream, or an error
Message(from, len) == [err |-> NULL, from |-> from, len |-> len]
Error(e) == [err |-> e, from |-> 0, len |-> 0]

\* tmp is a set of segments: tmp[lo..hi) holds the bytes of the stream from
\* position pos on. The part of segment s that lies in tmp[a..b)
Clip(s, a, b) ==
    LET lo == IF s.lo > a THEN s.lo ELSE a
        hi == Min(s.hi, b)
    IN  [lo |-> lo, hi |-> hi, pos |-> s.pos + (lo - s.lo)]

\* the segments of T that lie in tmp[a..b)
Slice(T, a, b) == {s \in {Clip(x, a, b) : x \in T} : s.lo < s.hi}

\* tmp[a..b) is overwritten: what is left of T
Erase(T, a, b) == Slice(T, 0, a) \cup Slice(T, b, max_temp)

\* socket.recv_into(tmp[off:]) gave n bytes, read at position p of the stream
Stored(T, off, p, n) ==
    IF n > 0 THEN Erase(T, off, off + n)
                    \cup {[lo |-> off, hi |-> off + n, pos |-> p]}
    ELSE T

\* a compaction that resets the cursors and leaves the bytes in place
Moved_none(T, cur, pen) == T

\* line 37: tmp[:pending-current] = tmp[current:pending]
Moved(T, cur, pen) ==
    Erase(T, 0, pen - cur)
      \cup {[lo |-> s.lo - cur, hi |-> s.hi - cur, pos |-> s.pos] :
              s \in Slice(T, cur, pen)}

\* lines 36-39 of _recv_raw: the unread bytes move to the front of tmp
Compacted ==
    IF current > max_temp \div 2
    THEN [current |-> 0, pending |-> pending - current,
          tmp |-> Moved(tmp, current, pending)]
    ELSE [current |-> current, pending |-> pending, tmp |-> tmp]

\* lines 40-50 of _recv_raw when recv_into has bytes to give: the fields after
RawRead ==
    LET c == Compacted
        increment == Min(max_temp - c.pending, Avail)
    IN  IF c.pending >= max_temp
        THEN [current |-> c.current, pending |-> c.pending, taken |-> taken,
              tmp |-> c.tmp]
        ELSE [current |-> c.current, pending |-> c.pending + increment,
              taken |-> taken + increment,
              tmp |-> Stored(c.tmp, c.pending, taken, increment)]

\* lines 40-41: tmp is full, _recv_raw returns without reading
Full == Compacted.pending >= max_temp

\* where recv starts (line 61): _recv_raw(True) if the header is not buffered
RecvEntry(cur, pen) == IF pen - cur < header_size THEN "raw" ELSE "head"

\* the peer calls send(data) with a pickle of n bytes
PeerSend(n) ==
    /\ ends < 0
    /\ Len(msgs) < MaxMsgs
    /\ msgs' = Append(msgs, n)
    /\ UNCHANGED <<arrived, ends, taken, current, pending, at, within, size,
                   received, returned, polled, unpolled>>
    /\ UNCHANGED <<serverVars, sessionVars, handleVars, refVars, sendVars, taskVars,
                   bufVars>>

\* the transport brings the bytes up to some cut to the receiving socket
Arrive(p) ==
    /\ p \in Cuts
    /\ p > arrived
    /\ ends >= 0 => p <= ends
    /\ arrived' = p
    /\ UNCHANGED <<msgs, ends, taken, current, pending, at, within, size,
                   received, returned, polled, unpolled>>
    /\ UNCHANGED <<serverVars, sessionVars, handleVars, refVars, sendVars, taskVars,
                   bufVars>>

\* the peer closes its socket (SocketConnection.__del__), or its process is
\* killed while the transport holds only the bytes up to p of its last frame
Shut(p) ==
    /\ ends < 0
    /\ p >= arrived
    /\ p = Total \/ (p \in Cuts /\ p > Start(Len(msgs)))
    /\ ends' = p
    /\ UNCHANGED <<msgs, arrived, taken, current, pending, at, within, size,
                   received, returned, polled, unpolled>>
    /\ UNCHANGED <<serverVars, sessionVars, handleVars, refVars, sendVars, taskVars,
                   bufVars>>

\* a call of recv() by the receiving thread
RecvCall ==
    /\ at = "idle"
    /\ within' = "recv"
    /\ at' = RecvEntry(current, pending)
    /\ UNCHANGED <<msgs, arrived, ends, taken, current, pending, size,
                   received, returned, polled, unpolled>>
    /\ UNCHANGED <<serverVars, sessionVars, handleVars, refVars, sendVars, taskVars,
                   bufVars>>

\* where the thread goes when recv returns or raises
AfterRecv(raised) ==
    IF raised THEN /\ at' = "raised"
                   /\ UNCHANGED within
    ELSE IF within = "_unpoll" THEN /\ at' = "drain"
                                    /\ UNCHANGED within
    ELSE /\ at' = "idle"
         /\ within' = "none"

\* line 62 of recv: _recv_raw(True)
RecvRaw ==
    /\ at = "raw"
    /\ \/ /\ Full \/ Avail > 0
          /\ current' = RawRead.current
          /\ pending' = RawRead.pending
          /\ taken' = RawRead.taken
          /\ tmp' = RawRead.tmp
          /\ at' = "head"
          /\ UNCHANGED <<within, returned>>
       \/ /\ ~Full
          /\ AtEOF
          /\ current' = Compacted.current
          /\ pending' = Compacted.pending
          /\ tmp' = Compacted.tmp
          /\ returned' = Append(returned, Error("EOFError"))
          /\ AfterRecv(TRUE)
          /\ UNCHANGED taken
    /\ UNCHANGED <<msgs, arrived, ends, size, received, polled, unpolled>>
    /\ UNCHANGED <<serverVars, sessionVars, handleVars, refVars, sendVars, taskVars>>

\* lines 63-68 of recv: the header, then what tmp already holds of the body
RecvHead ==
    /\ at = "head"
    /\ IF pending - current < header_size
       THEN /\ returned' = Append(returned, Error("ValueError"))
            /\ AfterRecv(TRUE)
            /\ UNCHANGED <<current, size, received>>
       ELSE LET n == unpack(Position)
                start == Min(n, pending - current - header_size)
            IN  /\ size' = n
                /\ current' = current + header_size + start
                /\ received' = start
                /\ IF start < n
                   THEN /\ at' = "body"
                        /\ UNCHANGED <<within, returned>>
                   ELSE /\ returned' = Append(returned,
                                 Message(Position + header_size, start))
                        /\ AfterRecv(FALSE)
    /\ UNCHANGED <<msgs, arrived, ends, taken, pending, polled, unpolled>>
    /\ UNCHANGED <<serverVars, sessionVars, handleVars, refVars, sendVars, taskVars,
                   bufVars>>

\* lines 69-74 of recv: one turn of the while loop
RecvBody ==
    /\ at = "body"
    /\ \/ /\ Avail > 0
          /\ LET increment == Min(size - received, Avail)
             IN  /\ taken' = taken + increment
                 /\ received' = received + increment
                 /\ IF received + increment < size
                    THEN UNCHANGED <<at, within, returned>>
                    ELSE /\ returned' = Append(returned,
                                  Message(taken - received, size))
                         /\ AfterRecv(FALSE)
       \/ /\ AtEOF
          /\ returned' = Append(returned, Error("EOFError"))
          /\ AfterRecv(TRUE)
          /\ UNCHANGED <<taken, received>>
    /\ UNCHANGED <<msgs, arrived, ends, current, pending, size, polled,
                   unpolled>>
    /\ UNCHANGED <<serverVars, sessionVars, handleVars, refVars, sendVars, taskVars,
                   bufVars>>

\* a call of poll(timeout), timeout 0 or None (lines 83-94)
PollCall(timeout) ==
    /\ at = "idle"
    /\ IF pending > current
       THEN /\ polled' = "true"
            /\ UNCHANGED <<at, within>>
       ELSE /\ polled' = "none"
            /\ at' = timeout
            /\ within' = "poll"
    /\ UNCHANGED <<msgs, arrived, ends, taken, current, pending, size,
                   received, returned, unpolled>>
    /\ UNCHANGED <<serverVars, sessionVars, handleVars, refVars, sendVars, taskVars,
                   bufVars>>

\* SlaveProcess.poll after connection.poll gave r (processing.py 326-335)
AfterPoll(r, cur, pen) ==
    IF within = "poll"
    THEN /\ polled' = (IF r THEN "true" ELSE "false")
         /\ at' = "idle"
         /\ within' = "none"
         /\ UNCHANGED unpolled
    ELSE /\ UNCHANGED polled
         /\ IF r THEN /\ at' = RecvEntry(cur, pen)
                      /\ UNCHANGED <<within, unpolled>>
            ELSE /\ at' = "idle"
                 /\ within' = "none"
                 /\ unpolled' = 0

\* lines 90-94 of poll: _recv_raw(True) under the timeout, then the answer
PollRaw ==
    /\ at \in {"poll0", "poll"}
    /\ \/ /\ Full \/ Avail > 0
          /\ current' = RawRead.current
          /\ pending' = RawRead.pending
          /\ taken' = RawRead.taken
          /\ tmp' = RawRead.tmp
          /\ AfterPoll(RawRead.pending > RawRead.current,
                       RawRead.current, RawRead.pending)
       \/ /\ ~Full
          /\ AtEOF
          /\ current' = Compacted.current
          /\ pending' = Compacted.pending
          /\ tmp' = Compacted.tmp
          /\ polled' = IF within = "poll" THEN "EOFError" ELSE polled
          /\ at' = "raised"
          /\ UNCHANGED <<taken, within, unpolled>>
       \/ /\ ~Full
          /\ Avail = 0
          /\ ~AtEOF
          /\ at = "poll0"
          /\ current' = Compacted.current
          /\ pending' = Compacted.pending
          /\ tmp' = Compacted.tmp
          /\ AfterPoll(Compacted.pending > Compacted.current,
                       Compacted.current, Compacted.pending)
          /\ UNCHANGED taken
    /\ UNCHANGED <<msgs, arrived, ends, size, received, returned>>
    /\ UNCHANGED <<serverVars, sessionVars, handleVars, refVars, sendVars, taskVars>>

\* Task.__init__ reaches self.slave._unpoll() (processing.py 337-344)
_unpoll ==
    /\ at = "idle"
    /\ unpolled + MaxSched > max_unpolled
    /\ unpolled' = unpolled + 1
    /\ IF unpolled + 1 > max_unpolled
       THEN /\ at' = "drain"
            /\ within' = "_unpoll"
       ELSE UNCHANGED <<at, within>>
    /\ UNCHANGED <<msgs, arrived, ends, taken, current, pending, size,
                   received, returned, polled>>
    /\ UNCHANGED <<serverVars, sessionVars, handleVars, refVars, sendVars, taskVars,
                   bufVars>>

\* `while self.poll(0)`: SlaveProcess.poll calls connection.poll(0)
Drain ==
    /\ at = "drain"
    /\ at' = IF pending > current THEN RecvEntry(current, pending) ELSE "poll0"
    /\ UNCHANGED <<msgs, arrived, ends, taken, current, pending, within, size,
                   received, returned, polled, unpolled>>
    /\ UNCHANGED <<serverVars, sessionVars, handleVars, refVars, sendVars, taskVars,
                   bufVars>>

Sender == (\E n \in Sizes : PeerSend(n)) \/ (\E p \in Cuts \cup {Total} : Shut(p))
Transport == \E p \in Cuts : Arrive(p)
Receiver == RecvCall \/ RecvRaw \/ RecvHead \/ RecvBody
Poller == (\E timeout \in {"poll0", "poll"} : PollCall(timeout)) \/ PollRaw
Scheduler == _unpoll \/ Drain

NextConn == Sender \/ Transport \/ Receiver \/ Poller \/ Scheduler

\* a session a few tasks away from its next drain
InitConn ==
    /\ Scheduled(max_unpolled + 1 - MaxSched)
    /\ HandleInit
    /\ Fresh
    /\ TaskInit
    /\ RefInit
    /\ persistent = FALSE
    /\ attached = TRUE
    /\ sockets = <<>>
    /\ clients = Empty
    /\ wrapped = Empty
    /\ pc = "select"
    /\ idx = 1
    /\ busy = FALSE
    /\ workers = {}
    /\ backlog = <<>>
    /\ conn = [c \in Clients |-> "new"]
    /\ sent = [c \in Clients |-> <<>>]
    /\ wire = [c \in Clients |-> <<>>]
    /\ buf = [c \in Clients |-> <<>>]
    /\ out = [c \in Clients |-> <<>>]
    /\ rcvd = [c \in Clients |-> <<>>]

SpecConn == InitConn /\ [][NextConn]_vars

\* lengths that leave the buffer with a frame read and the header of the
\* next one cut, past the middle of tmp
BufSizes == {10, 3000}

\* recv and poll calls on one connection
NextBuf ==
    \/ \E n \in BufSizes : PeerSend(n)
    \/ Transport \/ Receiver \/ Poller

SpecBuf == InitConn /\ [][NextBuf]_vars

\* ------------------------------------------------------ writes of replies
\* the flows of the server that call _task for tasks of one client: the
\* reception flow, for BLOCK and WRAP, and the workers of THREAD requests;
\* none of them holds a lock around SocketConnection.send
Flows == {"step", "w1", "w2"}
\* replies written to the connection of the client
MaxFrames == 3
\* lengths of the pickles of the replies: below and above max_concat
ReplySizes == {10, 600}

\* the tasks whose reply has been started
Started == {written[i].tid : i \in DOMAIN written}

\* SocketConnection.send, lines 105-110, up to its first sendall: the frame
\* in one write, or the header alone
SendCall(f, n) ==
    /\ \A x \in sending : x.flow # f
    /\ Cardinality(Started) < MaxFrames
    /\ LET k == Cardinality(Started) + 1
       IN  IF Len(send(n)) = 1
           THEN /\ written' = Append(written, [tid |-> k, part |-> "frame",
                                               bytes |-> send(n)[1]])
                /\ UNCHANGED sending
           ELSE /\ written' = Append(written, [tid |-> k, part |-> "header",
                                               bytes |-> send(n)[1]])
                /\ sending' = sending \cup {[flow |-> f, tid |-> k, n |-> n]}
    /\ UNCHANGED <<serverVars, sessionVars, handleVars, refVars, connVars, bufVars,
                   taskVars>>

\* line 110: the second sendall of a reply of max_concat bytes or more
SendBody(x) ==
    /\ x \in sending
    /\ written' = Append(written, [tid |-> x.tid, part |-> "body",
                                   bytes |-> send(x.n)[2]])
    /\ sending' = sending \ {x}
    /\ UNCHANGED <<serverVars, sessionVars, handleVars, refVars, connVars, bufVars,
                   taskVars>>

NextSend ==
    \/ \E f \in Flows : \E n \in ReplySizes : SendCall(f, n)
    \/ \E x \in sending : SendBody(x)

SpecSend == InitServing /\ [][NextSend]_vars

\* --------------------------------------------------------- payload shapes
\* payloads of the three shapes: a name, a tuple, a pickled callable
ShapeRequests ==
    {Request(op, Code("name", n)) : op \in {BLOCK, THREAD, WRAP},
                                    n \in {"f", "g"}}
      \cup {Request(BLOCK, Code(k, a)) : k \in {"val"}, a \in {"v"}}
      \cup {Request(WRAP, Code("obj", r)) : r \in Roots}
      \cup {Request(BLOCK, Code("ref", r)) : r \in Roots}

\* Task.__init__, lines 361-367: a payload that is neither callable nor a
\* tuple is refused with TypeError and nothing is sent
Refuse(c, op, code) ==
    /\ conn[c] = "open"
    /\ op \in {BLOCK, WRAP, THREAD}
    /\ code.kind = "name"
    /\ got' = By("schedule", Raised("TypeError"))
    /\ UNCHANGED <<heap, instances, owned, made>>
    /\ UNCHANGED <<serverVars, sessionVars, refVars, sendVars, connVars, bufVars,
                   taskVars>>

\* the requests of peers that write the frames themselves, and the calls
\* of schedule, thread and wrap with a name
NextShape ==
    \/ Server \/ OnWrap \/ Sessions(ShapeRequests, MaxTask) \/ Receiving
    \/ Threads
    \/ \E c \in Clients : \E rq \in ShapeRequests : Refuse(c, rq.op, rq.code)

SpecShape == InitServing /\ [][NextShape]_vars

\* ---------------------------------------------------------- WrappedObject
\* the handles of the client process: for each session and root, the
\* RemoteObjects that share its owned WrappedObject and those that share its
\* borrowed one. The server is the one of the sections above.
\* calls of SlaveProcess.wrap made by the sessions
MaxOwn == 2
\* RemoteObjects that share one WrappedObject
MaxShare == 2

\* requests of opcode op about root r in the sequence s
Count(s, op, r) ==
    Cardinality({i \in DOMAIN s : s[i].op = op /\ s[i].code.arg = r})

IsWrap(q) == q.op = WRAP

\* Task.__init__ for each of the requests rs, at most one
Emit(c, rs) ==
    IF rs = <<>> THEN UNCHANGED <<sent, wire>>
    ELSE LET req == [tid |-> Len(sent[c]) + 1, op |-> rs[1].op,
                     code |-> rs[1].code]
         IN  /\ sent' = [sent EXCEPT ![c] = Append(@, req)]
             /\ wire' = [wire EXCEPT ![c] = Append(@, req)]

\* a destructor that sends DROP for every WrappedObject
WrappedObject_del_any(own, r) == <<Request(DROP, Code("id", r))>>

\* WrappedObject.__del__: the requests it sends
WrappedObject_del(own, r) ==
    IF own THEN <<Request(DROP, Code("id", r))>> ELSE <<>>

\* SlaveProcess.wrap sends WRAP and waits: one call at a time
WrapCall(c, r) ==
    /\ conn[c] = "open"
    /\ SumLen([d \in Clients |-> SelectSeq(sent[d], IsWrap)], Clients) < MaxOwn
    /\ Count(sent[c], WRAP, r) = Len(rcvd[c])
    /\ shares[c][r] = 0
    /\ Emit(c, <<Request(WRAP, Code("obj", r))>>)
    /\ UNCHANGED <<sessionVars, handleVars, refVars, sendVars, connVars, bufVars,
                   taskVars>>
    /\ UNCHANGED <<persistent, attached, sockets, clients, wrapped, pc, idx,
                   busy, workers, backlog, conn, buf, out, rcvd>>

\* wait returns the id: RemoteObject(WrappedObject(self, remote, True), ...)
WrapReturn(c) ==
    /\ conn[c] = "open"
    /\ out[c] # <<>>
    /\ rcvd' = [rcvd EXCEPT ![c] = Append(@, Head(out[c]))]
    /\ out' = [out EXCEPT ![c] = Tail(@)]
    /\ shares' = IF Head(out[c]).err = NULL
                 THEN [shares EXCEPT ![c][Head(out[c]).res] = 1]
                 ELSE shares
    /\ UNCHANGED <<sessionVars, handleVars, lent, sendVars, connVars, bufVars,
                   taskVars>>
    /\ UNCHANGED <<persistent, attached, sockets, clients, wrapped, pc, idx,
                   busy, workers, backlog, conn, sent, wire, buf>>

\* RemoteObject._restore in the client process: a borrowed WrappedObject
Restore(c, r) ==
    /\ conn[c] = "open"
    /\ lent[c][r] = 0
    /\ lent' = [lent EXCEPT ![c][r] = 1]
    /\ UNCHANGED <<serverVars, sessionVars, handleVars, shares, sendVars,
                   connVars, bufVars, taskVars>>

\* RemoteObject.__getitem__ and __getattr__: one more RemoteObject on the
\* same WrappedObject
Derive(c, r, own) ==
    /\ IF own
       THEN /\ shares[c][r] \in 1..(MaxShare - 1)
            /\ shares' = [shares EXCEPT ![c][r] = @ + 1]
            /\ UNCHANGED lent
       ELSE /\ lent[c][r] \in 1..(MaxShare - 1)
            /\ lent' = [lent EXCEPT ![c][r] = @ + 1]
            /\ UNCHANGED shares
    /\ UNCHANGED <<serverVars, sessionVars, handleVars, sendVars, connVars, bufVars,
                   taskVars>>

\* a RemoteObject is collected; with the last one its WrappedObject
Collect(c, r, own) ==
    /\ conn[c] = "open"
    /\ LET n == IF own THEN shares[c][r] ELSE lent[c][r]
       IN  /\ n > 0
           /\ Emit(c, IF n = 1 THEN WrappedObject_del(own, r) ELSE <<>>)
    /\ IF own
       THEN /\ shares' = [shares EXCEPT ![c][r] = @ - 1]
            /\ UNCHANGED lent
       ELSE /\ lent' = [lent EXCEPT ![c][r] = @ - 1]
            /\ UNCHANGED shares
    /\ UNCHANGED <<sessionVars, handleVars, sendVars, connVars, bufVars, taskVars>>
    /\ UNCHANGED <<persistent, attached, sockets, clients, wrapped, pc, idx,
                   busy, workers, backlog, conn, buf, out, rcvd>>

\* RemoteObject.own on a borrowed handle: the name Task of line 449 is not
\* defined in the module, nothing is sent and owned stays False
OwnCall(c, r) ==
    /\ lent[c][r] > 0
    /\ got' = By("own", Raised("NameError"))
    /\ UNCHANGED <<heap, instances, owned, made>>
    /\ UNCHANGED <<serverVars, sessionVars, refVars, sendVars, connVars, bufVars,
                   taskVars>>

Owning ==
    \/ \E c \in Clients : \E r \in Roots : WrapCall(c, r)
    \/ \E c \in Clients : WrapReturn(c)
    \/ \E c \in Clients : \E r \in Roots : Restore(c, r)
    \/ \E c \in Clients : \E r \in Roots : \E own \in BOOLEAN :
          Derive(c, r, own)
    \/ \E c \in Clients : \E r \in Roots : \E own \in BOOLEAN :
          Collect(c, r, own)
    \/ \E c \in Clients : \E r \in Roots : OwnCall(c, r)

NextOwn ==
    PollNothing \/ StepEnd \/ LoopSelect \/ OnWrap \/ OnDrop \/ Owning

SpecOwn == InitServing /\ [][NextOwn]_vars

TypeOK ==
    /\ persistent \in BOOLEAN
    /\ attached \in BOOLEAN
    /\ pc \in {"select", "step", "returned", "exited", "crashed"}
    /\ DOMAIN clients \subseteq Clients
    /\ DOMAIN wrapped \subseteq Objs

\* ------------------------------------------------------------- handles
RECURSIVE Sum(_, _)
Sum(f, S) ==
    IF S = {} THEN 0
    ELSE LET x == CHOOSE y \in S : TRUE IN f[x] + Sum(f, S \ {x})

\* the references the connected clients hold on root r
Held(r) == Sum([c \in DOMAIN clients |-> clients[c][r]], DOMAIN clients)

\* C2: between two requests, the global count of every registered root is
\* the sum of the counts the connected clients hold for it
C2_CountIsSumOfClients ==
    \A r \in DOMAIN wrapped : wrapped[r] = Held(r)

\* C3: when the reception flow finds that a session is gone, it forgets
\* the client and lowers the count of every root by what this client held;
\* a root nobody else holds leaves the registry, the others stay
C3_DisconnectReleases ==
    [][Disconnect =>
         /\ Cur \notin DOMAIN clients'
         /\ \A r \in DOMAIN wrapped :
               IF wrapped[r] - clients[Cur][r] <= 0
               THEN r \notin DOMAIN wrapped'
               ELSE /\ r \in DOMAIN wrapped'
                    /\ wrapped'[r] = wrapped[r] - clients[Cur][r]]_vars

\* the frame the reception flow writes to the current client in this step
Written == out'[Cur][Len(out'[Cur])]

\* C4: a DROP that brings the count of a root to zero removes the entry in
\* the same step and any other DROP leaves it registered; a registered
\* root has a count above zero; only a WRAP registers a root; and a
\* dereference fails with ReferenceError exactly when the root is not
\* registered
C4_DropRemovesAtZero ==
    [][/\ OnDrop /\ Req.code.arg \in DOMAIN wrapped =>
            LET r == Req.code.arg
            IN  IF wrapped[r] = 1
                THEN r \notin DOMAIN wrapped'
                ELSE r \in DOMAIN wrapped' /\ wrapped'[r] = wrapped[r] - 1
       /\ \A r \in DOMAIN wrapped' : wrapped'[r] > 0
       /\ \A r \in DOMAIN wrapped' \ DOMAIN wrapped : OnWrap
       /\ OnBlock /\ Req.code.kind = "ref" /\ conn[Cur] = "open" =>
            /\ Written.tid = Req.tid
            /\ Req.code.arg \in DOMAIN wrapped =>
                 Written.err = NULL /\ Written.res = Req.code.arg
            /\ Req.code.arg \notin DOMAIN wrapped =>
                 Written.err = "ReferenceError"]_vars

\* a session wrapped a root, dropped it, and a later dereference failed
C4_Witness ==
    \E c \in Clients : \E d \in Clients :
       \E i, j \in DOMAIN sent[c] : \E k \in DOMAIN sent[d] : \E n \in DOMAIN out[d] :
          /\ i < j
          /\ sent[c][i].op = WRAP /\ sent[c][i].code = Code("obj", "r1")
          /\ sent[c][j].op = DROP
          /\ sent[d][k].op = BLOCK /\ sent[d][k].code = Code("ref", "r1")
          /\ out[d][n].tid = k /\ out[d][n].err = "ReferenceError"
          /\ \E m \in DOMAIN out[c] : out[c][m].tid = i /\ out[c][m].res = "r1"
          /\ wire[c] = <<>> /\ buf[c] = <<>>
          /\ "r1" \notin DOMAIN wrapped

\* C5: a WRAP whose result is already registered keeps the entry and adds
\* one to the count it has
C5_WrapAddsToCount ==
    [][OnWrap =>
         \A r \in DOMAIN wrapped :
            _run(wrapped, Req.code) = Outcome(NULL, r) =>
               r \in DOMAIN wrapped' /\ wrapped'[r] = wrapped[r] + 1]_vars

\* --------------------------------------------------------------- tasks
\* every frame the server wrote on the connection of c, in order
Frames(c) == rcvd[c] \o out[c]

IsPrefix(a, b) == Len(a) <= Len(b) /\ \A i \in 1..Len(a) : a[i] = b[i]

Tids(q) == [i \in 1..Len(q) |-> q[i].tid]

IsBlock(c, t) == t \in DOMAIN sent[c] /\ sent[c][t].op = BLOCK

\* the BLOCK requests of c in send order, and the replies c received for them
BlockRequests(c) == LET Test(q) == q.op = BLOCK IN SelectSeq(sent[c], Test)
BlockReplies(c) == LET Test(f) == IsBlock(c, f.tid) IN SelectSeq(rcvd[c], Test)

\* C1: at every moment the BLOCK replies a session has received are, in
\* order, the replies of a prefix of its BLOCK requests in send order
C1_BlockRepliesInSendOrder ==
    \A c \in Clients : IsPrefix(Tids(BlockReplies(c)), Tids(BlockRequests(c)))

\* C6: a BLOCK request read while workers exist is executed at once, and a
\* THREAD task has no reply on its session as long as the worker created
\* for it has not finished
C6_ThreadDoesNotHoldUp ==
    /\ InStep /\ Polled # <<>> /\ Req.op = BLOCK => ENABLED OnBlock
    /\ \A w \in workers : \A i \in DOMAIN rcvd[w.of[1]] :
          rcvd[w.of[1]][i].tid # w.of[2]

\* C7: every reply frame a session has received carries a task id the
\* session has sent
C7_ReplyIdsWereSent ==
    \A c \in Clients : \A i \in DOMAIN rcvd[c] : rcvd[c][i].tid \in DOMAIN sent[c]

\* what the payload of a request evaluates to (the payloads of the task
\* specification do not depend on the registry)
Expected(q) == _run(Empty, q.code)

\* nothing is left to receive, to execute or to send
Quiet ==
    /\ pc = "select"
    /\ workers = {}
    /\ \A c \in Clients : wire[c] = <<>> /\ buf[c] = <<>>

\* C8: every frame on the connection of a session answers one of its BLOCK,
\* THREAD or WRAP requests with that request's id and the outcome of its
\* payload, no request is answered twice, and once the server has nothing
\* left to do every such request is answered
C8_OneReplyPerRequest ==
    \A c \in Clients :
       /\ \A i \in DOMAIN Frames(c) :
             LET f == Frames(c)[i]
             IN  /\ f.tid \in DOMAIN sent[c]
                 /\ sent[c][f.tid].op \in {BLOCK, THREAD, WRAP}
                 /\ f = Reply(f.tid, Expected(sent[c][f.tid]))
                 /\ \A j \in DOMAIN Frames(c) : j # i => Frames(c)[j].tid # f.tid
       /\ Quiet =>
             \A t \in DOMAIN sent[c] : \E i \in DOMAIN Frames(c) : Frames(c)[i].tid = t

Raises(q) == q.op \in {BLOCK, THREAD, WRAP} /\ Expected(q).err # NULL

\* C9: every frame that answers a request whose payload raises has its
\* error and traceback slots populated and makes Task.wait raise that
\* error; the reception flow is still running; and once the server has
\* nothing left to do every such request is answered
C9_ErrorsAreReported ==
    /\ pc \in {"select", "step"}
    /\ \A c \in Clients : \A t \in DOMAIN sent[c] :
          Raises(sent[c][t]) =>
             /\ \A i \in DOMAIN Frames(c) :
                   Frames(c)[i].tid = t =>
                      /\ Frames(c)[i].err = Expected(sent[c][t]).err
                      /\ Frames(c)[i].rep # NULL
                      /\ wait(Frames(c)[i]).raises = Expected(sent[c][t]).err
             /\ Quiet => \E i \in DOMAIN Frames(c) : Frames(c)[i].tid = t

\* ----------------------------------------------------------- lifecycle
Running == pc \in {"select", "step"}

\* the reception flow has read a CLOSE request
CloseSeen ==
    \E c \in Clients : \E t \in DOMAIN sent[c] :
       /\ sent[c][t].op = CLOSE
       /\ t <= Len(sent[c]) - Len(wire[c]) - Len(buf[c])

\* C10: a server whose persistent flag is set stays in its loop, also when
\* its last client disconnects, as long as it has not received CLOSE
C10_PersistentKeepsRunning ==
    [][Running /\ persistent' /\ ~CloseSeen' => Running']_vars

\* the host process is over: no flow of it is left
ProcessEnded == ~Running /\ workers = {}

\* C11: once a non-persistent, attached server has left its loop through
\* the exit of line 91 the host process is over, also when THREAD workers
\* were running at that moment: no worker flow outlives the exit
C11_ExitEndsProcess == pc = "exited" => ProcessEnded

\* the for loop of step returns to loop with no client left
LastClientGone ==
    /\ pc = "step"
    /\ pc' \notin {"step", "crashed"}
    /\ DOMAIN clients = {}

WorkerIds(ws) == {w.of : w \in ws}

C13_CloseStopsLoop ==
    CloseSeen =>
       /\ ~Running
       /\ \A c \in Clients :
             \A i \in DOMAIN out[c] :
                out[c][i] # SidFrame /\ out[c][i].err = NULL /\ out[c][i].res = NULL
                   => out[c][i].len = 4

CanRun(u) ==
    \/ th[u].pc \notin {"done", "failed", "waiting"}
    \/ th[u].pc = "waiting" /\ th[u].timed

\* the reply of task k reached the session
Delivered(k) ==
    \/ k \in DOMAIN register /\ register[k].full
    \/ \E i \in DOMAIN inbox : inbox[i].tid = k

\* thread t is inside recvsig.wait(None) and no thread is left to notify it
BlockedForever(t) ==
    /\ th[t].pc = "waiting"
    /\ ~th[t].timed
    /\ \A u \in Waiters : ~CanRun(u)

\* C15: a thread that waits without timeout on a task whose reply reached
\* the session is never left inside recvsig.wait with its slot filled, or
\* with its reply on the connection, while no thread polls any more
C15_NoWaiterLeftBlocked ==
    \A t \in Waiters : Delivered(th[t].task) => ~BlockedForever(t)

\* C16: Task.wait returns the result of the reply that carries the id of
\* its task; it raises TimeoutError only for a call with a timeout whose
\* slot is empty, and then the task keeps its empty slot in the register,
\* so that a later call of wait on a filled slot returns the reply at once
C16_TimeoutLeavesTaskPending ==
    [][\A t \in Waiters :
          /\ th'[t].ret # NULL => th'[t].ret = Results[th'[t].task]
          /\ th'[t].exc = "TimeoutError" /\ th[t].exc # "TimeoutError"
               => /\ th[t].timed
                  /\ th[t].task \in DOMAIN register'
                  /\ register[th[t].task] = None
                  /\ register'[th[t].task] = None
          /\ th[t].pc = "idle" /\ th'[t].pc # "idle" /\ register[th[t].task].full
               => th'[t].pc = "done" /\ th'[t].ret = Results[th[t].task]]_vars

C16_Witness ==
    \E t \in Waiters :
       th[t].tmo /\ th[t].pc = "done" /\ th[t].ret = Results[th[t].task]

\* C17: once a polling thread met the failure of the connection, no thread
\* is left inside recvsig.wait(None) with nobody to wake it
C17_FailureReleasesWaiters ==
    (\E u \in Waiters : th[u].pc = "failed")
       => \A t \in Waiters : ~BlockedForever(t)

\* -------------------------------------------------- handles across processes
\* process M has a session to the server A
HasSession == \E c \in Clients : conn[c] = "open"

\* C18: a handle decoded in a process that is not its owner gives a
\* borrowed handle bound to an open session of this process to the owner
\* when the process has one, and ValueError when it has none
C18_BorrowedOrNoBridge ==
    [][\A sid \in Sids : \A a \in Addresses :
          HDecode("M", sid, a) =>
             IF sid = "A" /\ HasSession
             THEN /\ got'.kind = "handle"
                  /\ ~got'.owned
                  /\ got'.obj = Root(a)
                  /\ conn[got'.slave] = "open"
             ELSE got'.err = "ValueError"]_vars

\* C19: a handle decoded in the process that owns its root, while the root
\* is registered, gives the live object whose identity is the root of the
\* address, the one Server._wrap registered, and never a copy of its value
C19_OwnerDecodesToLiveObject ==
    [][\A a \in Addresses :
          HDecode("A", "A", a) /\ Len(a) = 1 /\ Root(a) \in DOMAIN wrapped
             => got' = By("decode", Live(Root(a)))]_vars

C19_Witness ==
    /\ got.kind = "object"
    /\ got.obj \in DOMAIN wrapped
    /\ Cardinality(DOMAIN wrapped) = 2

\* C20: unwrap() on an owned handle returns the value f() had at wrap time
\* followed by what the calls made through handles appended since: the
\* handle designates the one object of the server, not a snapshot
C20_UnwrapGivesCurrentValue ==
    [][\A c \in Clients : \A o \in Objs :
          HUnwrap(c, o) => got' = By("unwrap", Value(made[o]))]_vars

\* ------------------------------------------------------------ the stream
\* the k-th call of recv gave the k-th pickle sent, all of it
Whole(k) ==
    /\ k <= Len(msgs)
    /\ returned[k] = Message(Start(k) + header_size, msgs[k])

\* C21: whatever the sizes of the pickles sent and however the stream brings
\* their bytes, the successive recv calls return the pickles sent, each whole,
\* in the order they were sent, and raise nothing while the peer holds the
\* stream open
C21_RecvReturnsWhatWasSent ==
    \A k \in DOMAIN returned :
        \/ Whole(k)
        \/ returned[k] = Error("EOFError") /\ ends >= 0

\* ------------------------------------------------- requests of one client
\* number of requests of c the server has read from its connection
Read(c) == Len(sent[c]) - Len(wire[c]) - Len(buf[c])

\* C22: the request the server reads from a client is the oldest one the
\* client sent that was not read yet, and a DROP or a BLOCK takes effect in
\* the step that reads it: the DROP is applied to the registry as it stands,
\* the BLOCK runs on the registry as it stands and leaves it alone. A BLOCK
\* sent after a DROP therefore sees that DROP applied, one sent before it
\* does not.
C22_DropInSendOrder ==
    [][\A c \in Clients :
          Read(c)' = Read(c) + 1 =>
              LET q == sent[c][Read(c) + 1]
              IN  /\ q.op = DROP =>
                        Reg(wrapped', clients') =
                            _drop(Reg(wrapped, clients), c, q.code.arg)
                  /\ q.op = BLOCK =>
                        /\ out' = _task(out, c, q.tid, _run(wrapped, q.code))
                        /\ wrapped' = wrapped]_vars

\* a session wrapped an object, dropped it, then asked for it: the answer to
\* the third request is the ReferenceError of an object no longer registered
C22_Witness ==
    \E c \in Clients :
        /\ Len(sent[c]) = 3
        /\ sent[c][1].op = WRAP
        /\ sent[c][2].op = DROP
        /\ sent[c][3].op = BLOCK
        /\ \E i \in DOMAIN out[c] :
               out[c][i] = Reply(3, Outcome("ReferenceError", NULL))

\* ------------------------------------------------------ tasks of a session
\* the reply of the task of t has been received by the session
Received(t) ==
    \/ Waited(t)
    \/ th[t].task \in DOMAIN register /\ register[th[t].task].full

\* C23: Task.available() answers false while no reply for the task has been
\* received, true once it has been received, and still true after Task.wait()
\* has returned the result
C23_AvailableTellsReceived ==
    [][avail' # avail => (avail'.val <=> (Received(avail.by))')]_vars

\* a thread inside SlaveProcess.poll reads the reply at the head of the inbox
Consumes == inbox # <<>> /\ inbox' = Tail(inbox)
\* that reply is for a task that is not in the register
Orphan == Head(inbox).tid \notin DOMAIN register

\* C24: a reply whose task id is not in the register is consumed by poll
\* without adding or changing any entry of the register; its error, if it has
\* one, is printed, nothing is printed otherwise; poll returns normally and
\* the thread that called it goes on
C24_OrphanReplyIsDropped ==
    [][Consumes /\ Orphan =>
          /\ register' = register
          /\ stderr' = IF Head(inbox).err # NULL
                       THEN Append(stderr, [tid |-> Head(inbox).tid,
                                            by |-> "poll"])
                       ELSE stderr
          /\ \A t \in Waiters : th'[t].pc # "failed" \/ th[t].pc = "failed"]_vars

\* the error of a discarded task was printed when its reply came
C24_Witness ==
    \E t \in Waiters :
        /\ th[t] = Idle
        /\ \E i \in DOMAIN stderr :
               /\ stderr[i].by = "poll"
               /\ stderr[i].tid \notin DOMAIN register

\* C26: the requests of the tasks created by the threads of a session are
\* written to the connection in strictly increasing order of task id
C26_PostedInIdOrder ==
    \A i, j \in DOMAIN posted : i < j => posted[i] < posted[j]

\* threads inside the part of wait, available or _unpoll that holds recvlock
InsidePoll ==
    {t \in Waiters :
        th[t].pc \in {"poll", "release", "a.poll", "a.release", "d.poll",
                      "d.release"}}

\* C27: whatever the interleaving of the waits, the calls of available and
\* the scheduling of the threads of a session, at most one thread is between
\* taking the receive lock and releasing it, it is the thread the lock
\* belongs to, and the lock is free when no thread is there, also after a
\* poll raised
C27_OneReaderAtATime ==
    /\ Cardinality(InsidePoll) <= 1
    /\ recvlock = 0 <=> InsidePoll = {}
    /\ recvlock # 0 => InsidePoll = {recvlock}

\* a poll raised EOFError in one thread and another thread took the lock
\* after it
C27_Witness ==
    \E t, u \in Waiters :
        /\ th[t].pc = "failed"
        /\ th[u].pc \in {"poll", "a.poll", "d.poll"}
        /\ recvlock = u

\* C25: Server.step does not go back to the readiness wait of loop while the
\* receive buffer of a connected client holds a request it has not executed:
\* nothing would wake the wait for that request
C25_NoRequestLeftInBuffer ==
    pc = "select" => \A i \in DOMAIN sockets : buf[sockets[i]] = <<>>

\* -------------------------------------------------- polling the connection
\* the receiving thread is inside a recv_into that has nothing to return yet
Waits ==
    /\ \/ at = "raw" /\ ~Full
       \/ at = "body"
    /\ Avail = 0
    /\ ~AtEOF

\* C28: the drain that _unpoll does while a task is scheduled never waits
\* for incoming bytes, also when only a part of a reply frame has arrived
C28_DrainNeverWaits == ~(within = "_unpoll" /\ Waits)

\* the frame that starts at the next unread byte has arrived, header and body
Ready ==
    \E i \in 1..Len(msgs) :
        /\ Start(i) = Position
        /\ arrived >= Start(i) + Frame(i)

\* C29: poll answers true if and only if a whole frame is ready, so that the
\* recv that follows does not wait
C29_PollTrueIffFrameReady ==
    [][polled' # polled /\ polled' \in {"true", "false"} =>
          (polled' = "true" <=> Ready')]_vars

\* the stream has ended before the end of what would be the k-th frame
Truncated(k) ==
    /\ ends >= 0
    /\ k > Len(msgs) \/ ends < Start(k) + Frame(k)

\* C30: a recv that ends after the peer ended the stream before, inside the
\* header of, or inside the body of the frame it was receiving raises
\* EOFError: it returns no message and raises no other error
C30_EndOfStreamIsEOFError ==
    [][Len(returned') > Len(returned) /\ Truncated(Len(returned')) =>
          returned'[Len(returned')] = Error("EOFError")]_vars

\* ------------------------------------------------------ PERSIST and DETACH
\* C31: the step that reads a PERSIST sets persistent and the step that reads
\* a DETACH clears attached; neither changes the other flag, the clients or
\* the registry, and the reception flow is still running after it
C31_FlagRequestsKeepServing ==
    [][\A c \in Clients :
          Read(c)' = Read(c) + 1 =>
              LET q == sent[c][Read(c) + 1]
              IN  /\ q.op = PERSIST =>
                        /\ persistent'
                        /\ attached' = attached
                  /\ q.op = DETACH =>
                        /\ ~attached'
                        /\ persistent' = persistent
                  /\ q.op \in {PERSIST, DETACH} =>
                        /\ clients' = clients
                        /\ sockets' = sockets
                        /\ wrapped' = wrapped
                        /\ pc' \in {"step", "select"}]_vars

C33_DropOwnSilent ==
    [][\A c \in Clients :
          Read(c)' = Read(c) + 1 =>
              LET q == sent[c][Read(c) + 1]
              IN  q.op \in {DROP, OWN} =>
                      /\ out' = out
                      /\ q.code.arg \notin DOMAIN wrapped =>
                            /\ wrapped' = wrapped
                            /\ clients' = clients]_vars

\* an OWN and a DROP were read while nothing was ever wrapped
C33_Witness ==
    /\ \E c \in Clients : \E i \in 1..Read(c) : sent[c][i].op = OWN
    /\ \E c \in Clients : \E i \in 1..Read(c) : sent[c][i].op = DROP
    /\ \A c \in Clients : \A i \in DOMAIN sent[c] : sent[c][i].op # WRAP
    /\ wrapped = Empty

\* C34: the step that reads a DROP of root r from a client whose own
\* counter for r is zero leaves the registry as it was, and no counter of a
\* client is ever negative
C34_DropOnlyOwnReferences ==
    [][/\ \A c \in Clients :
             Read(c)' = Read(c) + 1 =>
                 LET q == sent[c][Read(c) + 1]
                 IN  q.op = DROP /\ clients[c][q.code.arg] = 0 =>
                         wrapped' = wrapped
       /\ \A c \in DOMAIN clients' : \A r \in Objs :
             clients'[c][r] >= 0]_vars

\* -------------------------------------------------------- reply encoding
\* C35: when the result of a BLOCK or of a THREAD task cannot be pickled,
\* the step that ends the task writes one reply with the id of the task, an
\* error and no result, and the reception flow stays in step or loop
C35_UnencodableResultReported ==
    [][/\ \A c \in Clients :
             Read(c)' = Read(c) + 1 =>
                 LET q == sent[c][Read(c) + 1]
                 IN  q.op = BLOCK /\ q.code.arg = Unpicklable =>
                         /\ Len(out'[c]) = Len(out[c]) + 1
                         /\ out'[c][Len(out'[c])].tid = q.tid
                         /\ out'[c][Len(out'[c])].err # NULL
                         /\ out'[c][Len(out'[c])].res = NULL
                         /\ pc' \in {"step", "select"}
       /\ \A w \in workers :
             w.st = "running" /\ w \notin workers'
                 /\ w.outcome.res = Unpicklable =>
                     /\ Len(out'[w.client]) = Len(out[w.client]) + 1
                     /\ out'[w.client][Len(out'[w.client])].tid = w.tid
                     /\ out'[w.client][Len(out'[w.client])].err # NULL
                     /\ out'[w.client][Len(out'[w.client])].res = NULL]_vars

\* ------------------------------------------------------------ task slots
\* the task k was handed to a wait() call
Consumed(k) == \E t \in Waiters : th[t].task = k /\ th[t].pc = "done"

\* C36: the slot of a task is filled only when it is empty and was not
\* consumed, a filled slot keeps its outcome until wait() empties it, and
\* the id of a destroyed Task never comes back in the pending table
C36_SlotFilledOnce ==
    [][\A k \in 1..lastid :
          /\ k \in DOMAIN register /\ k \in DOMAIN register' =>
                /\ ~register[k].full /\ register'[k].full => ~Consumed(k)
                /\ register[k].full /\ register'[k].full =>
                      register'[k] = register[k]
                /\ register[k].full /\ ~register'[k].full => Consumed(k)'
          /\ k \notin DOMAIN register => k \notin DOMAIN register']_vars

\* -------------------------------------------------------- payload shapes
\* C37: the step that reads a BLOCK or WRAP request writes a reply without
\* error when its payload is a name bound in env, a tuple whose call
\* succeeds, or a pickled callable that returns; the reply to a BLOCK
\* carries the value bound to the name, the object the tuple designates, or
\* the value returned; a worker that ran a name bound in env has no error
C37_PayloadShapes ==
    [][/\ \A c \in Clients :
             Read(c)' = Read(c) + 1 =>
                 LET q == sent[c][Read(c) + 1]
                     ok == \/ q.code.kind = "name" /\ q.code.arg \in DOMAIN env
                           \/ q.code.kind = "ref" /\ q.code.arg \in DOMAIN wrapped
                           \/ q.code.kind \in {"val", "obj"}
                     r == out'[c][Len(out'[c])]
                 IN  q.op \in {BLOCK, WRAP} /\ ok =>
                         /\ Len(out'[c]) = Len(out[c]) + 1
                         /\ r.tid = q.tid
                         /\ r.err = NULL
                         /\ q.op = BLOCK =>
                               r.res = IF q.code.kind = "name"
                                       THEN env[q.code.arg] ELSE q.code.arg
       /\ \A w \in workers' :
             w.st = "running" /\ w.code.kind = "name"
                 /\ w.code.arg \in DOMAIN env => w.outcome.err = NULL]_vars

\* ------------------------------------------------- handles used by tasks
\* the i-th request of c was sent while c owned root r: c wrapped r once
\* before it and dropped it only afterwards, and no other session sent a
\* WRAP or a DROP for r
Owning_r(c, i, r) ==
    /\ Count(SubSeq(sent[c], 1, i - 1), WRAP, r) = 1
    /\ Count(SubSeq(sent[c], 1, i - 1), DROP, r) = 0
    /\ \A d \in Clients \ {c} :
          Count(sent[d], WRAP, r) = 0 /\ Count(sent[d], DROP, r) = 0

\* C38: when a BLOCK request that references root r is read, and when the
\* worker of a THREAD request that references r starts to decode and run
\* it, r is registered if the request was sent while its session owned r
C38_HandleAliveWhenRun ==
    [][/\ \A c \in Clients :
             Read(c)' = Read(c) + 1 =>
                 LET q == sent[c][Read(c) + 1]
                 IN  q.op = BLOCK /\ q.code.kind = "ref"
                         /\ Owning_r(c, Read(c) + 1, q.code.arg) =>
                             q.code.arg \in DOMAIN wrapped
       /\ \A w \in workers :
             w.st = "spawned" /\ w \notin workers' =>
                 LET q == sent[w.of[1]][w.of[2]]
                 IN  q.code.kind = "ref"
                         /\ Owning_r(w.of[1], w.of[2], q.code.arg) =>
                             q.code.arg \in DOMAIN wrapped]_vars

\* ------------------------------------------------------ writes of replies
\* C39: on the connection of a client every header written alone is
\* followed at once by the body of the same reply: no write of another
\* reply comes between the two writes of a reply
C39_FramesNotInterleaved ==
    \A i \in DOMAIN written :
        written[i].part = "header" /\ i < Len(written) =>
            /\ written[i + 1].tid = written[i].tid
            /\ written[i + 1].part = "body"

\* ------------------------------------------------------- receive buffer
RECURSIVE Bytes(_)
\* number of bytes in the segments of T
Bytes(T) ==
    IF T = {} THEN 0
    ELSE LET s == CHOOSE x \in T : TRUE IN (s.hi - s.lo) + Bytes(T \ {s})

\* tmp[current..pending) holds, in order, the bytes of the stream that were
\* taken from the socket and not read yet
UnreadKept ==
    /\ Bytes(Slice(tmp, current, pending)) = pending - current
    /\ \A s \in Slice(tmp, current, pending) :
          s.pos - s.lo = Position - current

\* C40: 0 <= current <= pending <= len(tmp) at every point of recv and
\* poll, and the unread part of the buffer is always the bytes received and
\* not yet read, in stream order, also after a compaction
C40_BufferCursors ==
    /\ 0 <= current
    /\ current <= pending
    /\ pending <= max_temp
    /\ UnreadKept

\* a compaction moved unread bytes of a later frame to the front of tmp and
\* more of the stream was stored behind them
C40_Witness ==
    \E s \in tmp : \E u \in tmp :
        /\ s.lo = 0
        /\ s.pos > max_temp \div 2
        /\ u.lo = s.hi
        /\ u.lo < header_size
        /\ pending > current

====
